---- MODULE Spec2Model ----
(***************************************************************************)
(* Session gate (src-tauri/src/auth.rs) and direct-message conversation    *)
(* deduplicator (src-tauri/src/conversations.rs) of the messaging          *)
(* platform's Tauri backend.                                               *)
(*                                                                         *)
(* Strings are sequences of byte values, so that Rust's String ordering,   *)
(* trimming and concatenation are computed and not assumed.  An            *)
(* Option<T> is a sequence of length at most one.                          *)
(***************************************************************************)
EXTENDS Integers, Sequences, FiniteSets, Bags, TLC

(***************************************************************************)
(* Bounds of the model.                                                    *)
(***************************************************************************)
\* number of concurrent get_or_create_dm_conversation invocations
NCallers == 2
\* number of concurrent auth commands waiting on the identity provider
NAuthTasks == 2
\* the clock readings are 0..MaxTime
MaxTime == 2
\* number of successful token issues by the identity provider
MaxIssued == 2

Callers == 1..NCallers

(***************************************************************************)
(* Strings.                                                                *)
(***************************************************************************)
EmptyStr == << >>

None == << >>
Some(x) == << x >>

\* Rust's `String < String`: bytewise lexicographic, a proper prefix is less.
RECURSIVE StrLess(_, _)
StrLess(s, t) ==
    IF t = << >> THEN FALSE
    ELSE IF s = << >> THEN TRUE
    ELSE IF Head(s) < Head(t) THEN TRUE
    ELSE IF Head(s) > Head(t) THEN FALSE
    ELSE StrLess(Tail(s), Tail(t))

\* str::trim on the ASCII white space the model's inputs use (32 = ' ').
RECURSIVE TrimStart(_)
TrimStart(s) ==
    IF s # << >> /\ Head(s) = 32 THEN TrimStart(Tail(s)) ELSE s

RECURSIVE TrimEnd(_)
TrimEnd(s) ==
    IF s # << >> /\ s[Len(s)] = 32 THEN TrimEnd(SubSeq(s, 1, Len(s) - 1)) ELSE s

Trim(s) == TrimEnd(TrimStart(s))

\* Subject ids: "a1", "a2" are well-formed identifiers of two users.
UserA == << 97, 49 >>
UserB == << 97, 50 >>
\* "g1": not hexadecimal, rejected by the identifier parser.
Malformed == << 103, 49 >>

HexBytes == (48..57) \cup (65..70) \cup (97..102)

\* uuid::Uuid::parse_str(..).is_ok(), scaled to the model's short identifiers:
\* a non-empty string of hexadecimal digits.
UuidParseOk(s) == s # << >> /\ \A i \in 1..Len(s) : s[i] \in HexBytes

(***************************************************************************)
(* Tokens of the identity provider.                                        *)
(*   access / refresh credential: [owner, n]  (n = 0: the empty string)    *)
(*   identity credential: the number of '.'-separated parts, whether the   *)
(*   middle part decodes to JSON, and the "sub" / "email" members          *)
(*   (an Option each).                                                     *)
(***************************************************************************)
EmptyTok == [owner |-> EmptyStr, n |-> 0]
Tok(u, k) == [owner |-> u, n |-> k]

EmailOf(u) == u \o << 64 >>

IdTok(u, k) == [parts |-> 3, json |-> TRUE, sub |-> Some(u), email |-> Some(EmailOf(u)), n |-> k]
\* String::new(): "".split('.') yields one part
EmptyIdTok == [parts |-> 1, json |-> FALSE, sub |-> None, email |-> None, n |-> 0]

UnwrapOrDefault(opt) == IF opt = None THEN EmptyStr ELSE opt[1]

\* fn decode_id_token(id_token) -> (user_id, email)
decode_id_token(id_token) ==
    IF id_token.parts # 3 THEN << EmptyStr, EmptyStr >>
    ELSE IF ~id_token.json THEN << EmptyStr, EmptyStr >>
    ELSE << UnwrapOrDefault(id_token.sub), UnwrapOrDefault(id_token.email) >>

\* struct Session
Session(at, rt, it, uid, em, exp) ==
    [access_token |-> at, refresh_token |-> rt, id_token |-> it,
     user_id |-> uid, email |-> em, expires_at |-> exp]

VARIABLES
    session,      \* SessionStore.session: Option<Session>
    now,          \* chrono::Utc::now().timestamp()
    issued,       \* number of token sets the identity provider has issued
    pending,      \* the auth commands waiting on the identity provider (a bag):
                  \* [cmd, tok], tok being refresh_session's local refresh_token
    last,         \* the auth command that returned last, and what it returned
    installed,    \* history: the sign_in that wrote the slot last, [sub, at, d],
                  \* while no other write of the slot has followed it
    conversations,  \* committed rows of table conversations
    participants,   \* committed rows of table conversation_participants
    call,           \* per caller: the locals and the open transaction of its
                    \* get_or_create_dm_conversation invocation
    returned,       \* history: ({caller, other user}, conversation id) of every
                    \* successful return
    friend_requests,  \* committed rows of table friend_requests
    friends,          \* committed rows of table friends
    messages,         \* committed rows of table messages
    task            \* per caller: the locals of its friends.rs command or
                    \* send_message invocation

gateVars == << session, now, issued, pending, last, installed >>
dmVars == << conversations, participants, call, returned >>
socialVars == << friend_requests, friends, messages, task >>

vars == << session, now, issued, pending, last, installed,
          conversations, participants, call, returned,
          friend_requests, friends, messages, task >>

(***************************************************************************)
(* Results returned to the frontend.                                       *)
(***************************************************************************)
\* struct AuthResult
AuthResult(ok, err, uid, conf) ==
    [success |-> ok, error |-> err, user_id |-> uid, needs_confirmation |-> conf]

\* Result<T, String>
Ok(v) == [ok |-> TRUE, val |-> v]
Err(e) == [ok |-> FALSE, err |-> e]

\* what a command that returned leaves in `last`:
\*   op   the command, held  whether the slot was occupied when it took the lock
\*   (refresh_session: at its first lock), why  the identity provider's answer,
\*   ret  the returned value, arg  the arguments it was invoked with (recorded
\*   for sync_oauth_session)
Returned(o, h, w, r) == [op |-> o, held |-> h, why |-> w, ret |-> r, arg |-> << >>]
ReturnedFor(o, h, a, r) == [op |-> o, held |-> h, why |-> "", ret |-> r, arg |-> a]

\* struct ConversationResult
ConversationResult(ok, cid, err) == [success |-> ok, conversation_id |-> cid, error |-> err]

\* a transaction: the rows it has inserted and the row locks it holds, none of
\* them visible before the commit; usable is false once a statement has failed
NoTx == [conversations |-> {}, participants |-> {}, locks |-> {}, usable |-> TRUE]

\* the locals of get_or_create_dm_conversation, pc naming the await it is at
IdleCall ==
    [pc |-> "idle", user_id |-> EmptyStr, other_user_id |-> EmptyStr, dm_key |-> EmptyStr,
     conversation_id |-> None, tx |-> NoTx, result |-> None,
     \* history: the gate let the caller pass; the path taken (fast, created,
     \* conflict); a store call of this invocation reported an error
     gated |-> FALSE, path |-> "", faulted |-> FALSE]

\* the locals of a friends.rs command or of send_message, pc naming the await
\* it is at
IdleTask ==
    [pc |-> "idle", cmd |-> "", user_id |-> EmptyStr, arg |-> << >>,
     from_user_id |-> EmptyStr, to_user_id |-> EmptyStr, result |-> None,
     \* history: the INSERT of this invocation has been applied
     inserted |-> FALSE]

Init ==
    /\ session = None
    /\ now = 0
    /\ issued = 0
    /\ pending = EmptyBag
    /\ last = Returned("init", FALSE, "", None)
    /\ installed = None
    /\ conversations = {}
    /\ participants = {}
    /\ call = [p \in Callers |-> IdleCall]
    /\ returned = {}
    /\ friend_requests = {}
    /\ friends = {}
    /\ messages = {}
    /\ task = [p \in Callers |-> IdleTask]

\* a command waiting on the identity provider
Waiting(cmd, tok) == [cmd |-> cmd, tok |-> tok]
IsWaiting(w) == BagIn(w, pending)
\* a worker is free to take one more command that awaits the provider
CanAwait == BagCardinality(pending) < NAuthTasks
Await(w) == pending' = pending (+) SetToBag({w})
Resume(w) == pending' = pending (-) SetToBag({w})

(***************************************************************************)
(* The clock.                                                              *)
(***************************************************************************)
Tick ==
    /\ now < MaxTime
    /\ now' = now + 1
    /\ last' = Returned("tick", session # None, "", None)
    /\ UNCHANGED << session, issued, pending, installed, dmVars, socialVars >>

(***************************************************************************)
(* Inputs of the auth commands and answers of the identity provider.       *)
(***************************************************************************)
\* "pppppppp"
LongPassword == << 112, 112, 112, 112, 112, 112, 112, 112 >>
\* (email, password) as the frontend submits them: the e-mails "", " " and
\* "a1@" with a password of eight characters, and "a1@" with "" and "p"
Credentials ==
    { << EmptyStr, LongPassword >>, << << 32 >>, LongPassword >>,
      << EmailOf(UserA), EmptyStr >>, << EmailOf(UserA), << 112 >> >>,
      << EmailOf(UserA), LongPassword >> }
\* AuthenticationResultType.expires_in, in clock units
ExpiresIn == { 1, 2 }
\* the account behind the e-mail address the frontend submits
Users == { UserA }
\* shapes of an authentication result
\*   full: the three credentials; no_id_token / no_access_token: that member is
\*   absent, and unwrap_or_default() makes it the empty string
TokenShapes == { "full", "no_id_token", "no_access_token" }

\* the three credentials of the k-th authentication result, issued for user u
IssuedAccess(shape, u, k) == IF shape = "no_access_token" THEN EmptyTok ELSE Tok(u, k)
IssuedId(shape, u, k) == IF shape = "no_id_token" THEN EmptyIdTok ELSE IdTok(u, k)

(***************************************************************************)
(* auth.rs: sign_in                                                        *)
(***************************************************************************)
\* the input validation and the request to the identity provider
SignIn(email, password) ==
    IF Trim(email) = EmptyStr
    THEN /\ last' = Returned("sign_in", session # None, "",
                             AuthResult(FALSE, Some("Email is required"), None, FALSE))
         /\ UNCHANGED << session, now, issued, pending, installed, dmVars, socialVars >>
    ELSE IF password = EmptyStr
    THEN /\ last' = Returned("sign_in", session # None, "",
                             AuthResult(FALSE, Some("Password is required"), None, FALSE))
         /\ UNCHANGED << session, now, issued, pending, installed, dmVars, socialVars >>
    ELSE /\ CanAwait
         /\ Await(Waiting("sign_in", EmptyTok))
         /\ UNCHANGED << session, now, issued, last, installed, dmVars, socialVars >>

\* sensitivity check for C9: the lifetime stored without the clock reading
ExpiresAtDuration(t, expires_in) == expires_in

\* `chrono::Utc::now().timestamp() + expires_in`
ExpiresAt(t, expires_in) == t + expires_in

\* sensitivity check for C13: a sign_in that keeps the refresh credential of
\* the Session it finds
SignInStoreMerge(store, new) ==
    IF store = None THEN Some(new)
    ELSE Some([new EXCEPT !.refresh_token = store[1].refresh_token])

\* the slot after a successful sign_in: `*store = Some(session)`
SignInStore(store, new) == Some(new)

\* Ok(response) with an authentication result: the slot is replaced
SignInTokens(u, shape, expires_in) ==
    /\ IsWaiting(Waiting("sign_in", EmptyTok))
    /\ issued < MaxIssued
    /\ LET k == issued + 1
           id_token == IssuedId(shape, u, k)
           decoded == decode_id_token(id_token)
           expires_at == ExpiresAt(now, expires_in)
       IN /\ session' = SignInStore(session,
                           Session(IssuedAccess(shape, u, k), Tok(u, k), id_token,
                                   decoded[1], decoded[2], expires_at))
          /\ last' = Returned("sign_in", session # None, "tokens",
                              AuthResult(TRUE, None, Some(decoded[1]), FALSE))
          /\ issued' = k
          /\ installed' = IF id_token.sub # None
                           THEN Some([sub |-> id_token.sub[1], at |-> now, d |-> expires_in])
                           ELSE None
    /\ Resume(Waiting("sign_in", EmptyTok))
    /\ UNCHANGED << now, dmVars, socialVars >>

SignInFailures ==
    { "no_result", "not_authorized", "user_not_found", "user_not_confirmed", "other" }

SignInError(why) ==
    CASE why = "no_result" -> "No authentication result"
      [] why = "not_authorized" -> "Invalid email or password"
      [] why = "user_not_found" -> "User not found"
      [] why = "user_not_confirmed" -> "Please confirm your email first"
      [] OTHER -> "Authentication failed"

\* Ok(response) without an authentication result, or Err(e)
SignInFails(why) ==
    /\ IsWaiting(Waiting("sign_in", EmptyTok))
    /\ last' = Returned("sign_in", session # None, why,
                        AuthResult(FALSE, Some(SignInError(why)), None, why = "user_not_confirmed"))
    /\ Resume(Waiting("sign_in", EmptyTok))
    /\ UNCHANGED << session, now, issued, installed, dmVars, socialVars >>

(***************************************************************************)
(* auth.rs: sign_up                                                        *)
(***************************************************************************)
SignUp(email, password) ==
    IF Trim(email) = EmptyStr
    THEN /\ last' = Returned("sign_up", session # None, "",
                             AuthResult(FALSE, Some("Email is required"), None, FALSE))
         /\ UNCHANGED << session, now, issued, pending, installed, dmVars, socialVars >>
    ELSE IF Len(password) < 8
    THEN /\ last' = Returned("sign_up", session # None, "",
                             AuthResult(FALSE, Some("Password must be at least 8 characters"), None, FALSE))
         /\ UNCHANGED << session, now, issued, pending, installed, dmVars, socialVars >>
    ELSE /\ CanAwait
         /\ Await(Waiting("sign_up", EmptyTok))
         /\ UNCHANGED << session, now, issued, last, installed, dmVars, socialVars >>

\* user_confirmed: sign_up returns sign_in(email, password, session_store), whose
\* input validation passes on the e-mail and password sign_up has accepted
SignUpConfirmed ==
    /\ IsWaiting(Waiting("sign_up", EmptyTok))
    /\ pending' = (pending (-) SetToBag({Waiting("sign_up", EmptyTok)}))
                     (+) SetToBag({Waiting("sign_in", EmptyTok)})
    /\ UNCHANGED << session, now, issued, last, installed, dmVars, socialVars >>

SignUpUnconfirmed(u) ==
    /\ IsWaiting(Waiting("sign_up", EmptyTok))
    /\ last' = Returned("sign_up", session # None, "unconfirmed",
                        AuthResult(TRUE, None, Some(u), TRUE))
    /\ Resume(Waiting("sign_up", EmptyTok))
    /\ UNCHANGED << session, now, issued, installed, dmVars, socialVars >>

SignUpFails ==
    /\ IsWaiting(Waiting("sign_up", EmptyTok))
    /\ last' = Returned("sign_up", session # None, "error",
                        AuthResult(FALSE, Some("Signup failed"), None, FALSE))
    /\ Resume(Waiting("sign_up", EmptyTok))
    /\ UNCHANGED << session, now, issued, installed, dmVars, socialVars >>

(***************************************************************************)
(* auth.rs: sign_out                                                       *)
(***************************************************************************)
\* sensitivity check for C8: a sign_out that leaves the slot as it is
SignOutStoreKeep(store) == store

\* the slot after sign_out: `*store = None`
SignOutStore(store) == None

SignOut ==
    /\ session' = SignOutStore(session)
    /\ last' = Returned("sign_out", session # None, "", Ok(TRUE))
    /\ installed' = None
    /\ UNCHANGED << now, issued, pending, dmVars, socialVars >>

(***************************************************************************)
(* auth.rs: the reads of the slot.  Each takes the lock, compares the      *)
(* clock with expires_at and returns; the guard is not `mut`.  The         *)
(* commands return Ok(..) of the Option modelled here (Err only on a       *)
(* poisoned lock).                                                         *)
(***************************************************************************)
\* struct PublicSessionInfo
PublicSessionInfo(uid, em) == [user_id |-> uid, email |-> em, is_authenticated |-> TRUE]

\* the value get_session returns for slot content `store` at clock reading t
get_session(store, t) ==
    IF store = None THEN None
    ELSE IF t >= store[1].expires_at THEN None
    ELSE Some(PublicSessionInfo(store[1].user_id, store[1].email))

\* the value get_auth_token returns
get_auth_token(store, t) ==
    IF store = None THEN None
    ELSE IF t >= store[1].expires_at THEN None
    ELSE Some(store[1].access_token)

\* the value get_user_id returns
get_user_id(store, t) ==
    IF store = None THEN None
    ELSE IF t >= store[1].expires_at THEN None
    ELSE Some(store[1].user_id)

\* sensitivity check for C6: a gate that still admits at now = expires_at
get_user_id_from_store_inclusive(store, t) ==
    IF store = None THEN Err("Not authenticated. Please sign in.")
    ELSE IF t > store[1].expires_at THEN Err("Session expired. Please sign in again.")
    ELSE Ok(store[1].user_id)

\* sensitivity check for C17: a gate that hands out the identity of every held
\* Session, expired or not
get_user_id_from_store_unexpiring(store, t) ==
    IF store = None THEN Err("Not authenticated. Please sign in.")
    ELSE Ok(store[1].user_id)

\* conversations.rs: fn get_user_id_from_store, the gate of the privileged commands
get_user_id_from_store(store, t) ==
    IF store = None THEN Err("Not authenticated. Please sign in.")
    ELSE IF t >= store[1].expires_at THEN Err("Session expired. Please sign in again.")
    ELSE Ok(store[1].user_id)

\* sensitivity check for C34: a copy of the gate that still admits at
\* now = expires_at
friends_get_user_id_from_store_late(store, t) ==
    IF store = None THEN Err("Not authenticated. Please sign in.")
    ELSE IF t > store[1].expires_at THEN Err("Session expired. Please sign in again.")
    ELSE Ok(store[1].user_id)

\* friends.rs: fn get_user_id_from_store
friends_get_user_id_from_store(store, t) ==
    IF store = None THEN Err("Not authenticated. Please sign in.")
    ELSE IF t >= store[1].expires_at THEN Err("Session expired. Please sign in again.")
    ELSE Ok(store[1].user_id)

\* profile.rs: fn get_user_id_from_store
profile_get_user_id_from_store(store, t) ==
    IF store = None THEN Err("Not authenticated. Please sign in.")
    ELSE IF t >= store[1].expires_at THEN Err("Session expired. Please sign in again.")
    ELSE Ok(store[1].user_id)

\* sensitivity check for C7: a read that evicts the expired Session
ReadStoreEvict(store, t) ==
    IF store # None /\ t >= store[1].expires_at THEN None ELSE store

\* the slot after a read: the lock guard is only dereferenced
ReadStore(store, t) == store

GetSession ==
    /\ last' = Returned("get_session", session # None, "", get_session(session, now))
    /\ session' = ReadStore(session, now)
    /\ UNCHANGED << now, issued, pending, installed, dmVars, socialVars >>

GetAuthToken ==
    /\ last' = Returned("get_auth_token", session # None, "", get_auth_token(session, now))
    /\ session' = ReadStore(session, now)
    /\ UNCHANGED << now, issued, pending, installed, dmVars, socialVars >>

GetUserId ==
    /\ last' = Returned("get_user_id", session # None, "", get_user_id(session, now))
    /\ session' = ReadStore(session, now)
    /\ UNCHANGED << now, issued, pending, installed, dmVars, socialVars >>

\* a privileged command that stops at the gate or has nothing further to do
\* with the slot: what the gate hands to it
GetUserIdFromStore ==
    /\ last' = Returned("get_user_id_from_store", session # None, "",
                        get_user_id_from_store(session, now))
    /\ session' = ReadStore(session, now)
    /\ UNCHANGED << now, issued, pending, installed, dmVars, socialVars >>

(***************************************************************************)
(* auth.rs: refresh_session                                                *)
(***************************************************************************)
\* sensitivity check for C11: a refresh_session that asks the provider without
\* looking at the slot
RefreshSessionUnguarded ==
    /\ CanAwait
    /\ Await(Waiting("refresh", IF session = None THEN EmptyTok ELSE session[1].refresh_token))
    /\ UNCHANGED << session, now, issued, last, installed, dmVars, socialVars >>

\* sensitivity check for C23: a refresh_session that keeps the Session out of
\* the slot while it waits for the provider
RefreshSessionTakes ==
    IF session = None
    THEN /\ last' = Returned("refresh_session", FALSE, "", Ok(FALSE))
         /\ UNCHANGED << session, now, issued, pending, installed, dmVars, socialVars >>
    ELSE /\ CanAwait
         /\ Await(Waiting("refresh", session[1].refresh_token))
         /\ session' = None
         /\ UNCHANGED << now, issued, last, installed, dmVars, socialVars >>

\* sensitivity check for C28: a refresh_session that treats an expired Session
\* as no Session
RefreshSessionUnexpiredOnly ==
    IF session = None \/ now >= session[1].expires_at
    THEN /\ last' = Returned("refresh_session", FALSE, "", Ok(FALSE))
         /\ UNCHANGED << session, now, issued, pending, installed, dmVars, socialVars >>
    ELSE /\ CanAwait
         /\ Await(Waiting("refresh", session[1].refresh_token))
         /\ UNCHANGED << session, now, issued, last, installed, dmVars, socialVars >>

\* first critical section: copy the refresh credential, or return false
RefreshSession ==
    IF session = None
    THEN /\ last' = Returned("refresh_session", FALSE, "", Ok(FALSE))
         /\ UNCHANGED << session, now, issued, pending, installed, dmVars, socialVars >>
    ELSE /\ CanAwait
         /\ Await(Waiting("refresh", session[1].refresh_token))
         /\ UNCHANGED << session, now, issued, last, installed, dmVars, socialVars >>

\* sensitivity check for C12: a write-back that keeps the subject id and the
\* contact address of the Session it finds
RefreshedKeepIdentity(s, access_token, id_token, expires_at) ==
    [s EXCEPT !.access_token = access_token, !.id_token = id_token,
              !.expires_at = expires_at]

\* the fields refresh_session overwrites in a held Session
Refreshed(s, access_token, id_token, expires_at) ==
    LET decoded == decode_id_token(id_token)
    IN [s EXCEPT !.access_token = access_token, !.id_token = id_token,
                 !.user_id = decoded[1], !.email = decoded[2],
                 !.expires_at = expires_at]

\* sensitivity check for C15: a write-back of which only the first assignment
\* is in the slot when the lock is released
RefreshWriteBackTorn(store, access_token, id_token, expires_at) ==
    IF store # None
    THEN Some([store[1] EXCEPT !.access_token = access_token])
    ELSE None

\* sensitivity check for C27: a write-back that installs a Session when it
\* finds the slot empty
RefreshWriteBackCreates(store, access_token, id_token, expires_at) ==
    IF store # None
    THEN Some(Refreshed(store[1], access_token, id_token, expires_at))
    ELSE LET decoded == decode_id_token(id_token)
         IN Some(Session(access_token, EmptyTok, id_token, decoded[1], decoded[2], expires_at))

\* the slot after the write-back of a successful refresh: `if let Some(session) =
\* store.as_mut()`
RefreshWriteBack(store, access_token, id_token, expires_at) ==
    IF store # None
    THEN Some(Refreshed(store[1], access_token, id_token, expires_at))
    ELSE None

\* Ok(response) with an authentication result, issued to the owner of the
\* refresh credential that was sent
RefreshTokens(tok, shape, expires_in) ==
    /\ IsWaiting(Waiting("refresh", tok))
    /\ tok # EmptyTok
    /\ issued < MaxIssued
    /\ LET k == issued + 1
           u == tok.owner
       IN /\ session' = RefreshWriteBack(session, IssuedAccess(shape, u, k),
                                         IssuedId(shape, u, k), ExpiresAt(now, expires_in))
          /\ issued' = k
    /\ installed' = None
    /\ last' = Returned("refresh_session", TRUE, "tokens", Ok(TRUE))
    /\ Resume(Waiting("refresh", tok))
    /\ UNCHANGED << now, dmVars, socialVars >>

\* Ok(response) without an authentication result
RefreshNoResult(tok) ==
    /\ IsWaiting(Waiting("refresh", tok))
    /\ last' = Returned("refresh_session", TRUE, "no_result", Ok(FALSE))
    /\ Resume(Waiting("refresh", tok))
    /\ UNCHANGED << session, now, issued, installed, dmVars, socialVars >>

\* Err(_): the refresh credential is rejected, or the request fails
RefreshFails(tok) ==
    /\ IsWaiting(Waiting("refresh", tok))
    /\ session' = None
    /\ installed' = None
    /\ last' = Returned("refresh_session", TRUE, "error", Ok(FALSE))
    /\ Resume(Waiting("refresh", tok))
    /\ UNCHANGED << now, issued, dmVars, socialVars >>

\* the refresh credentials some refresh_session is waiting with
RefreshToks == { w.tok : w \in { x \in BagToSet(pending) : x.cmd = "refresh" } }

(***************************************************************************)
(* auth.rs: sync_oauth_session                                             *)
(***************************************************************************)
\* credentials obtained through the hosted UI, outside this process
ExtTok(u) == Tok(u, -1)

\* sensitivity check for C14: a sync_oauth_session without the test of user_id
SyncOauthSessionAnyUser(access_token, refresh_token, id_token, user_id, email, expires_at) ==
    LET arg == << access_token, refresh_token, id_token, user_id, email, expires_at >>
    IN /\ IF access_token = EmptyTok
          THEN /\ last' = ReturnedFor("sync_oauth_session", session # None, arg,
                                      Err("Access token is required"))
               /\ UNCHANGED << session, installed >>
          ELSE /\ session' = Some(Session(access_token, refresh_token, id_token,
                                          user_id, email, expires_at))
               /\ last' = ReturnedFor("sync_oauth_session", session # None, arg, Ok(TRUE))
               /\ installed' = None
       /\ UNCHANGED << now, issued, pending, dmVars, socialVars >>

SyncOauthSession(access_token, refresh_token, id_token, user_id, email, expires_at) ==
    LET arg == << access_token, refresh_token, id_token, user_id, email, expires_at >>
    IN /\ IF access_token = EmptyTok
          THEN /\ last' = ReturnedFor("sync_oauth_session", session # None, arg,
                                      Err("Access token is required"))
               /\ UNCHANGED << session, installed >>
          ELSE IF user_id = EmptyStr
          THEN /\ last' = ReturnedFor("sync_oauth_session", session # None, arg,
                                      Err("User ID is required"))
               /\ UNCHANGED << session, installed >>
          ELSE /\ session' = Some(Session(access_token, refresh_token, id_token,
                                          user_id, email, expires_at))
               /\ last' = ReturnedFor("sync_oauth_session", session # None, arg, Ok(TRUE))
               /\ installed' = None
       /\ UNCHANGED << now, issued, pending, dmVars, socialVars >>

\* the six arguments the frontend passes after a federated login of user u
\* (access_token, refresh_token, id_token, user_id, email, expires_at)
Federated(access_token, u, user_id, expires_at) ==
    << access_token, ExtTok(u), IdTok(u, -1), user_id, EmailOf(u), expires_at >>

\* after a login of UserB: an empty access_token, an empty user_id, a session
\* that expires at 1, one that outlives the clock
SyncArgs ==
    { Federated(EmptyTok, UserB, UserB, 1),
      Federated(ExtTok(UserB), UserB, EmptyStr, 1),
      Federated(ExtTok(UserB), UserB, UserB, 1),
      Federated(ExtTok(UserB), UserB, UserB, MaxTime + 1) }

(***************************************************************************)
(* The session gate on its own: every auth command, the reads and the      *)
(* clock.                                                                  *)
(***************************************************************************)
NextGate ==
    \/ Tick
    \/ \E c \in Credentials : SignIn(c[1], c[2])
    \/ \E u \in Users, shape \in TokenShapes, d \in ExpiresIn : SignInTokens(u, shape, d)
    \/ \E why \in SignInFailures : SignInFails(why)
    \/ \E c \in Credentials : SignUp(c[1], c[2])
    \/ SignUpConfirmed
    \/ \E u \in Users : SignUpUnconfirmed(u)
    \/ SignUpFails
    \/ SignOut
    \/ GetSession
    \/ GetAuthToken
    \/ GetUserId
    \/ GetUserIdFromStore
    \/ RefreshSession
    \/ \E tok \in RefreshToks, shape \in TokenShapes, d \in ExpiresIn :
          RefreshTokens(tok, shape, d)
    \/ \E tok \in RefreshToks : RefreshNoResult(tok)
    \/ \E tok \in RefreshToks : RefreshFails(tok)
    \/ \E a \in SyncArgs : SyncOauthSession(a[1], a[2], a[3], a[4], a[5], a[6])

SpecGate == Init /\ [][NextGate]_vars

(***************************************************************************)
(* conversations.rs: get_or_create_dm_conversation against the relational  *)
(* store.  The store runs each transaction at READ COMMITTED: a statement  *)
(* sees the rows committed before it starts and the rows its own           *)
(* transaction has inserted; the rows and row locks of a transaction       *)
(* become visible, or are released, together at its commit, and are        *)
(* discarded when the transaction is dropped without a commit.  A commit   *)
(* that reports a failure has applied nothing.                             *)
(***************************************************************************)
\* a row of table conversations
ConversationRow(id, key) == [id |-> id, type |-> "direct", dm_participant_key |-> key]

\* sensitivity check for C5: the key with the caller first, unsorted
DmKeyCallerFirst(user_id, other_user_id) == user_id \o << 58 >> \o other_user_id

\* format!("{}:{}", ..) on the two ids ordered by `<` (58 = ':')
DmKey(user_id, other_user_id) ==
    IF StrLess(user_id, other_user_id)
    THEN user_id \o << 58 >> \o other_user_id
    ELSE other_user_id \o << 58 >> \o user_id

\* sensitivity check for C4: no self-conversation test
IsSelfNever(user_id, other_user_id) == FALSE

\* `other_user_id == user_id`
IsSelf(user_id, other_user_id) == other_user_id = user_id

\* sensitivity check for C20: an initial lookup that finds no row
SelectDirectByKeyNone(rows, key) == {}

\* SELECT id FROM conversations WHERE type = 'direct' AND dm_participant_key = $1
SelectDirectByKey(rows, key) ==
    { r \in rows : r.type = "direct" /\ r.dm_participant_key = key }

\* sensitivity check for C1: a store whose arbiter index never reports a conflict
ConflictingRowsNone(rows, key) == {}

\* the rows the arbiter index of `ON CONFLICT (dm_participant_key) WHERE type =
\* 'direct' AND dm_participant_key IS NOT NULL` finds in conflict with a new row
ConflictingRows(rows, key) ==
    { r \in rows : r.type = "direct" /\ r.dm_participant_key = key }

\* sensitivity check for C2: a re-query that does not see the committed row
SelectByKeyNone(rows, key) == {}

\* SELECT id FROM conversations WHERE dm_participant_key = $1
SelectByKey(rows, key) == { r \in rows : r.dm_participant_key = key }

\* sensitivity check for C3: only the caller is added as a participant
ParticipantRowsCallerOnly(conversation_id, user_id, other_user_id) ==
    { [conversation_id |-> conversation_id, user_id |-> user_id] }

\* VALUES ($1::uuid, $2), ($1::uuid, $3)
ParticipantRows(conversation_id, user_id, other_user_id) ==
    { [conversation_id |-> conversation_id, user_id |-> user_id],
      [conversation_id |-> conversation_id, user_id |-> other_user_id] }

\* rows inserted by the open transactions of the other callers
UncommittedOf(p) == UNION { call[q].tx.conversations : q \in Callers \ {p} }
\* row locks held by the open transactions of the other callers
LockedByOthers(p) == UNION { call[q].tx.locks : q \in Callers \ {p} }

\* the column default of conversations.id: an identifier no row, transaction,
\* caller or earlier return holds
UsedIds ==
    { r.id : r \in conversations }
      \cup UNION { { r.id : r \in call[q].tx.conversations } : q \in Callers }
      \cup UNION { { call[q].conversation_id[i] : i \in DOMAIN call[q].conversation_id } : q \in Callers }
      \cup { x[2] : x \in returned }
NewId == CHOOSE i \in 1..(Cardinality(UsedIds) + 1) : i \notin UsedIds

\* sensitivity check for C22: a return that leaves the transaction open, with
\* the row locks it holds
FinishKeepsTx(p, r) ==
    call' = [call EXCEPT ![p].pc = "done", ![p].result = Some(r)]

\* the function returns r; its transaction, if any, is dropped
Finish(p, r) ==
    call' = [call EXCEPT ![p].pc = "done", ![p].tx = NoTx, ![p].result = Some(r)]

\* sensitivity check for C21: a store error reported in the error field of a
\* ConversationResult
FailAsValue(p, e) ==
    call' = [call EXCEPT ![p].pc = "done", ![p].tx = NoTx,
                         ![p].result = Some(Ok(ConversationResult(FALSE, None, Some(e)))),
                         ![p].faulted = TRUE]

\* a store call reports an error, which `?` returns; the transaction is dropped
Fail(p, e) ==
    call' = [call EXCEPT ![p].pc = "done", ![p].tx = NoTx, ![p].result = Some(Err(e)),
                         ![p].faulted = TRUE]

\* the gate, the validation of other_user_id, and pool.begin().  get_pool()
\* hands out the pool init_db has set at startup; a process started without a
\* reachable database is outside this model.
GetOrCreateDmConversation(p, other_user_id) ==
    /\ call[p].pc = "idle"
    /\ LET gate == get_user_id_from_store(session, now)
       IN IF ~gate.ok
          THEN call' = [call EXCEPT ![p].pc = "done", ![p].other_user_id = other_user_id,
                                    ![p].result = Some(Err(gate.err))]
          ELSE IF ~UuidParseOk(other_user_id)
          THEN call' = [call EXCEPT ![p].pc = "done", ![p].user_id = gate.val,
                                    ![p].other_user_id = other_user_id, ![p].gated = TRUE,
                                    ![p].result = Some(Ok(ConversationResult(FALSE, None, Some("Invalid user ID"))))]
          ELSE IF IsSelf(gate.val, other_user_id)
          THEN call' = [call EXCEPT ![p].pc = "done", ![p].user_id = gate.val,
                                    ![p].other_user_id = other_user_id, ![p].gated = TRUE,
                                    ![p].result = Some(Ok(ConversationResult(FALSE, None,
                                                     Some("Cannot create conversation with yourself"))))]
          ELSE call' = [call EXCEPT ![p].pc = "begin", ![p].user_id = gate.val,
                                    ![p].other_user_id = other_user_id, ![p].gated = TRUE]
    /\ UNCHANGED << gateVars, socialVars, conversations, participants, returned >>

\* pool.begin() answers; the key is computed
DmBegin(p, ok) ==
    /\ call[p].pc = "begin"
    /\ IF ok
       THEN call' = [call EXCEPT ![p].pc = "select",
                                 ![p].dm_key = DmKey(call[p].user_id, call[p].other_user_id)]
       ELSE Fail(p, "Failed to start transaction")
    /\ UNCHANGED << gateVars, socialVars, conversations, participants, returned >>

\* SELECT .. FOR UPDATE answers: a row found is locked, after the transaction
\* that holds its lock has ended
DmSelect(p, ok) ==
    /\ call[p].pc = "select"
    /\ IF ~ok
       THEN Fail(p, "Database error")
       ELSE LET existing == SelectDirectByKey(conversations, call[p].dm_key)
            IN IF existing = {}
               THEN call' = [call EXCEPT ![p].pc = "insert"]
               ELSE /\ { r.id : r \in existing } \cap LockedByOthers(p) = {}
                    /\ \E r \in existing :
                          call' = [call EXCEPT ![p].pc = "commit", ![p].path = "fast",
                                               ![p].conversation_id = Some(r.id),
                                               ![p].tx.locks = { x.id : x \in existing }]
    /\ UNCHANGED << gateVars, socialVars, conversations, participants, returned >>

\* sensitivity check for C19: a store in which the statements that follow a
\* failed INSERT of the same transaction still run
DmInsertErrorKeepsTx(p, ok) ==
    /\ call[p].pc = "insert"
    /\ IF ~ok
       THEN call' = [call EXCEPT ![p].pc = "requery", ![p].faulted = TRUE]
       ELSE /\ ConflictingRows(UncommittedOf(p), call[p].dm_key) = {}
            /\ IF ConflictingRows(conversations, call[p].dm_key) # {}
               THEN call' = [call EXCEPT ![p].pc = "requery"]
               ELSE call' = [call EXCEPT ![p].pc = "participants", ![p].path = "created",
                                         ![p].conversation_id = Some(NewId),
                                         ![p].tx.conversations =
                                             { ConversationRow(NewId, call[p].dm_key) }]
    /\ UNCHANGED << gateVars, socialVars, conversations, participants, returned >>

\* INSERT .. ON CONFLICT DO NOTHING RETURNING id answers.  It waits for an open
\* transaction that has inserted a conflicting row; against a committed one it
\* inserts nothing and returns no row, which fetch_one reports as an error.
DmInsert(p, ok) ==
    /\ call[p].pc = "insert"
    /\ IF ~ok
       THEN call' = [call EXCEPT ![p].pc = "requery", ![p].tx.usable = FALSE,
                                 ![p].faulted = TRUE]
       ELSE /\ ConflictingRows(UncommittedOf(p), call[p].dm_key) = {}
            /\ IF ConflictingRows(conversations, call[p].dm_key) # {}
               THEN call' = [call EXCEPT ![p].pc = "requery"]
               ELSE call' = [call EXCEPT ![p].pc = "participants", ![p].path = "created",
                                         ![p].conversation_id = Some(NewId),
                                         ![p].tx.conversations =
                                             { ConversationRow(NewId, call[p].dm_key) }]
    /\ UNCHANGED << gateVars, socialVars, conversations, participants, returned >>

\* sensitivity check for C18: an Err(_) arm that reports the conflict to the
\* caller instead of looking the row up
DmRequeryFatal(p, ok) ==
    /\ call[p].pc = "requery"
    /\ IF ~ok \/ ~call[p].tx.usable
       THEN Fail(p, "Database error")
       ELSE Finish(p, Ok(ConversationResult(FALSE, None, Some("Conversation already exists"))))
    /\ UNCHANGED << gateVars, socialVars, conversations, participants, returned >>

\* the Err(_) arm: SELECT id .. WHERE dm_participant_key = $1 answers
DmRequery(p, ok) ==
    /\ call[p].pc = "requery"
    /\ LET existing == SelectByKey(conversations \cup call[p].tx.conversations, call[p].dm_key)
       IN IF ~ok \/ ~call[p].tx.usable
          THEN Fail(p, "Database error")
          ELSE IF existing = {}
          THEN Finish(p, Err("Database error"))
          ELSE \E r \in existing :
                  call' = [call EXCEPT ![p].pc = "commit", ![p].path = "conflict",
                                       ![p].conversation_id = Some(r.id)]
    /\ UNCHANGED << gateVars, socialVars, conversations, participants, returned >>

\* sensitivity check for C33: a participant insert that asks the gate again
\* and writes the row of the subject id held then
DmParticipantsAsksGate(p, ok) ==
    /\ call[p].pc = "participants"
    /\ LET gate == get_user_id_from_store(session, now)
       IN IF ok /\ gate.ok
          THEN call' = [call EXCEPT ![p].pc = "commit",
                                    ![p].tx.participants =
                                        ParticipantRows(call[p].conversation_id[1],
                                                        gate.val, call[p].other_user_id)]
          ELSE Fail(p, "Database error")
    /\ UNCHANGED << gateVars, socialVars, conversations, participants, returned >>

\* INSERT INTO conversation_participants answers
DmParticipants(p, ok) ==
    /\ call[p].pc = "participants"
    /\ IF ok
       THEN call' = [call EXCEPT ![p].pc = "commit",
                                 ![p].tx.participants =
                                     ParticipantRows(call[p].conversation_id[1],
                                                     call[p].user_id, call[p].other_user_id)]
       ELSE Fail(p, "Database error")
    /\ UNCHANGED << gateVars, socialVars, conversations, participants, returned >>

\* sensitivity check for C24: a commit that puts the rows of the transaction
\* in the place of the committed rows of the same key
DmCommitReplaces(p, ok) ==
    /\ call[p].pc = "commit"
    /\ IF ok
       THEN /\ conversations' =
                   { r \in conversations : r.dm_participant_key # call[p].dm_key }
                       \cup call[p].tx.conversations
            /\ participants' = participants \cup call[p].tx.participants
            /\ Finish(p, Ok(ConversationResult(TRUE, call[p].conversation_id, None)))
            /\ returned' = returned \cup { << { call[p].user_id, call[p].other_user_id },
                                               call[p].conversation_id[1] >> }
       ELSE /\ Fail(p, "Failed to commit transaction")
            /\ UNCHANGED << conversations, participants, returned >>
    /\ UNCHANGED << gateVars, socialVars >>

\* tx.commit() answers, on each of the three paths
DmCommit(p, ok) ==
    /\ call[p].pc = "commit"
    /\ IF ok
       THEN /\ conversations' = conversations \cup call[p].tx.conversations
            /\ participants' = participants \cup call[p].tx.participants
            /\ Finish(p, Ok(ConversationResult(TRUE, call[p].conversation_id, None)))
            /\ returned' = returned \cup { << { call[p].user_id, call[p].other_user_id },
                                               call[p].conversation_id[1] >> }
       ELSE /\ Fail(p, "Failed to commit transaction")
            /\ UNCHANGED << conversations, participants, returned >>
    /\ UNCHANGED << gateVars, socialVars >>

\* the frontend has the result; the caller is free for the next invocation
DmReturn(p) ==
    /\ call[p].pc = "done"
    /\ call' = [call EXCEPT ![p] = IdleCall]
    /\ UNCHANGED << gateVars, socialVars, conversations, participants, returned >>

\* other_user_id as the frontend passes it
OtherArgs == { UserA, UserB, Malformed }

\* the sessions the callers run under: one that outlives the clock for each
\* user (before the first of them is installed the slot is empty)
DmSessions ==
    { Federated(ExtTok(UserA), UserA, UserA, MaxTime + 1),
      Federated(ExtTok(UserB), UserB, UserB, MaxTime + 1) }

(***************************************************************************)
(* The conversation deduplicator: concurrent callers, and the slot writes  *)
(* that decide under which identity a caller passes the gate.              *)
(***************************************************************************)
NextDM ==
    \/ \E p \in Callers, other_user_id \in OtherArgs :
          GetOrCreateDmConversation(p, other_user_id)
    \/ \E p \in Callers, ok \in BOOLEAN : DmBegin(p, ok)
    \/ \E p \in Callers, ok \in BOOLEAN : DmSelect(p, ok)
    \/ \E p \in Callers, ok \in BOOLEAN : DmInsert(p, ok)
    \/ \E p \in Callers, ok \in BOOLEAN : DmRequery(p, ok)
    \/ \E p \in Callers, ok \in BOOLEAN : DmParticipants(p, ok)
    \/ \E p \in Callers, ok \in BOOLEAN : DmCommit(p, ok)
    \/ \E p \in Callers : DmReturn(p)
    \/ \E a \in DmSessions : SyncOauthSession(a[1], a[2], a[3], a[4], a[5], a[6])

SpecDM == Init /\ [][NextDM]_vars

\* the store answers every statement it can answer: a statement that waits
\* for a row lock or for a conflicting open transaction is answered once it
\* has been free to proceed often enough (the store queues the waiters); the
\* other statements are answered when they are issued.  An answer may still
\* be an error.
StoreAnswers ==
    \A p \in Callers :
        /\ WF_vars(DmBegin(p, TRUE))
        /\ SF_vars(DmSelect(p, TRUE))
        /\ SF_vars(DmInsert(p, TRUE))
        /\ WF_vars(DmRequery(p, TRUE))
        /\ WF_vars(DmParticipants(p, TRUE))
        /\ WF_vars(DmCommit(p, TRUE))

\* a third user, and the session its callers run under
UserC == << 97, 51 >>
PairSessions == { Federated(ExtTok(UserC), UserC, UserC, MaxTime + 1) }

(***************************************************************************)
(* The conversation deduplicator called by one user for two other users:   *)
(* concurrent invocations for the same pair and for different pairs,       *)
(* against a store that answers.  Each caller invokes the command once.    *)
(***************************************************************************)
NextDMPairs ==
    \/ \E p \in Callers, other_user_id \in OtherArgs :
          GetOrCreateDmConversation(p, other_user_id)
    \/ \E p \in Callers, ok \in BOOLEAN : DmBegin(p, ok)
    \/ \E p \in Callers, ok \in BOOLEAN : DmSelect(p, ok)
    \/ \E p \in Callers, ok \in BOOLEAN : DmInsert(p, ok)
    \/ \E p \in Callers, ok \in BOOLEAN : DmRequery(p, ok)
    \/ \E p \in Callers, ok \in BOOLEAN : DmParticipants(p, ok)
    \/ \E p \in Callers, ok \in BOOLEAN : DmCommit(p, ok)
    \/ \E a \in PairSessions : SyncOauthSession(a[1], a[2], a[3], a[4], a[5], a[6])

SpecDMFair == Init /\ [][NextDMPairs]_vars /\ StoreAnswers

\* a session whose user_id is not a UUID: sync_oauth_session installs every
\* non-empty user_id as it is given
ForeignIdSessions == { Federated(ExtTok(UserA), UserA, Malformed, MaxTime + 1) }

(***************************************************************************)
(* The conversation deduplicator called under a Session whose subject id   *)
(* is not a UUID.                                                          *)
(***************************************************************************)
NextDMForeignId ==
    \/ \E p \in Callers, other_user_id \in OtherArgs :
          GetOrCreateDmConversation(p, other_user_id)
    \/ \E p \in Callers, ok \in BOOLEAN : DmBegin(p, ok)
    \/ \E p \in Callers, ok \in BOOLEAN : DmSelect(p, ok)
    \/ \E p \in Callers, ok \in BOOLEAN : DmInsert(p, ok)
    \/ \E p \in Callers, ok \in BOOLEAN : DmRequery(p, ok)
    \/ \E p \in Callers, ok \in BOOLEAN : DmParticipants(p, ok)
    \/ \E p \in Callers, ok \in BOOLEAN : DmCommit(p, ok)
    \/ \E p \in Callers : DmReturn(p)
    \/ \E a \in ForeignIdSessions : SyncOauthSession(a[1], a[2], a[3], a[4], a[5], a[6])

SpecDMForeignId == Init /\ [][NextDMForeignId]_vars

\* a session that expires at clock reading 1
ExpiringSessions == { Federated(ExtTok(UserA), UserA, UserA, 1) }

(***************************************************************************)
(* The conversation deduplicator behind the gate: the callers of one user, *)
(* whose Session is installed on an empty slot and expires while the clock *)
(* runs.                                                                   *)
(***************************************************************************)
NextDMExpiry ==
    \/ \E p \in Callers, other_user_id \in OtherArgs :
          GetOrCreateDmConversation(p, other_user_id)
    \/ \E p \in Callers, ok \in BOOLEAN : DmBegin(p, ok)
    \/ \E p \in Callers, ok \in BOOLEAN : DmSelect(p, ok)
    \/ \E p \in Callers, ok \in BOOLEAN : DmInsert(p, ok)
    \/ \E p \in Callers, ok \in BOOLEAN : DmRequery(p, ok)
    \/ \E p \in Callers, ok \in BOOLEAN : DmParticipants(p, ok)
    \/ \E p \in Callers, ok \in BOOLEAN : DmCommit(p, ok)
    \/ \E p \in Callers : DmReturn(p)
    \/ \E a \in ExpiringSessions : SyncOauthSession(a[1], a[2], a[3], a[4], a[5], a[6])
    \/ Tick

SpecDMExpiry == Init /\ [][NextDMExpiry]_vars

\* what sync_oauth_session is called with: an empty access_token, an empty
\* user_id, a session that is expired from the start, one that outlives the
\* clock
FailingSessions ==
    { Federated(EmptyTok, UserA, UserA, MaxTime + 1),
      Federated(ExtTok(UserA), UserA, EmptyStr, MaxTime + 1),
      Federated(ExtTok(UserA), UserA, UserA, 0),
      Federated(ExtTok(UserA), UserA, UserA, MaxTime + 1) }

\* the credentials sign_in refuses before it asks the identity provider
RefusedCredentials ==
    { c \in Credentials : Trim(c[1]) = EmptyStr \/ c[2] = EmptyStr }

(***************************************************************************)
(* The failures of the commands: the conversation deduplicator with every  *)
(* refusal of the gate, of the validation and of the store, together with  *)
(* sync_oauth_session and the sign_in that fails its input validation.     *)
(***************************************************************************)
NextDMFailures ==
    \/ \E p \in Callers, other_user_id \in OtherArgs :
          GetOrCreateDmConversation(p, other_user_id)
    \/ \E p \in Callers, ok \in BOOLEAN : DmBegin(p, ok)
    \/ \E p \in Callers, ok \in BOOLEAN : DmSelect(p, ok)
    \/ \E p \in Callers, ok \in BOOLEAN : DmInsert(p, ok)
    \/ \E p \in Callers, ok \in BOOLEAN : DmRequery(p, ok)
    \/ \E p \in Callers, ok \in BOOLEAN : DmParticipants(p, ok)
    \/ \E p \in Callers, ok \in BOOLEAN : DmCommit(p, ok)
    \/ \E p \in Callers : DmReturn(p)
    \/ \E a \in FailingSessions : SyncOauthSession(a[1], a[2], a[3], a[4], a[5], a[6])
    \/ \E c \in RefusedCredentials : SignIn(c[1], c[2])

SpecDMFailures == Init /\ [][NextDMFailures]_vars

(***************************************************************************)
(* The conversation deduplicator called under Sessions whose subject ids   *)
(* contain the separator of the key: "a1:a2" and "a2:a3", as               *)
(* sync_oauth_session accepts them; the other user is "a1" or "a3".  Each   *)
(* caller invokes the command once.                                        *)
(***************************************************************************)
ColonIdA == UserA \o << 58 >> \o UserB
ColonIdB == UserB \o << 58 >> \o UserC
ColonIdSessions ==
    { Federated(ExtTok(UserA), UserA, ColonIdA, MaxTime + 1),
      Federated(ExtTok(UserB), UserB, ColonIdB, MaxTime + 1) }
ColonOtherArgs == { UserA, UserC }

NextDMKeys ==
    \/ \E p \in Callers, other_user_id \in ColonOtherArgs :
          GetOrCreateDmConversation(p, other_user_id)
    \/ \E p \in Callers, ok \in BOOLEAN : DmBegin(p, ok)
    \/ \E p \in Callers, ok \in BOOLEAN : DmSelect(p, ok)
    \/ \E p \in Callers, ok \in BOOLEAN : DmInsert(p, ok)
    \/ \E p \in Callers, ok \in BOOLEAN : DmRequery(p, ok)
    \/ \E p \in Callers, ok \in BOOLEAN : DmParticipants(p, ok)
    \/ \E p \in Callers, ok \in BOOLEAN : DmCommit(p, ok)
    \/ \E a \in ColonIdSessions : SyncOauthSession(a[1], a[2], a[3], a[4], a[5], a[6])

SpecDMKeys == Init /\ [][NextDMKeys]_vars

(***************************************************************************)
(* The conversation deduplicator called with other_user_id in two          *)
(* spellings of one identifier: Uuid::parse_str reads hexadecimal digits   *)
(* in either case, so "A2" and "a2" parse to the same Uuid.  The caller is *)
(* "a1"; each caller invokes the command once.                             *)
(***************************************************************************)
\* the Uuid that parse_str yields for an accepted string, as its lower-case
\* spelling
UuidOf(s) == [i \in 1..Len(s) |-> IF s[i] \in 65..70 THEN s[i] + 32 ELSE s[i]]

\* "A1", "A2"
UpperA == << 65, 49 >>
UpperB == << 65, 50 >>
SpellingArgs == { UpperA, UserB, UpperB }
SpellingSessions == { Federated(ExtTok(UserA), UserA, UserA, MaxTime + 1) }

NextDMSpellings ==
    \/ \E p \in Callers, other_user_id \in SpellingArgs :
          GetOrCreateDmConversation(p, other_user_id)
    \/ \E p \in Callers, ok \in BOOLEAN : DmBegin(p, ok)
    \/ \E p \in Callers, ok \in BOOLEAN : DmSelect(p, ok)
    \/ \E p \in Callers, ok \in BOOLEAN : DmInsert(p, ok)
    \/ \E p \in Callers, ok \in BOOLEAN : DmRequery(p, ok)
    \/ \E p \in Callers, ok \in BOOLEAN : DmParticipants(p, ok)
    \/ \E p \in Callers, ok \in BOOLEAN : DmCommit(p, ok)
    \/ \E a \in SpellingSessions : SyncOauthSession(a[1], a[2], a[3], a[4], a[5], a[6])

SpecDMSpellings == Init /\ [][NextDMSpellings]_vars

(***************************************************************************)
(* The conversation deduplicator while the slot changes under a call in    *)
(* flight: sign_out, the Session of another user, and the clock passing    *)
(* the expiry instant.  Each caller invokes the command once.              *)
(***************************************************************************)
\* a Session of UserA that expires at 1, one of UserB that outlives the clock
ChangingSessions ==
    { Federated(ExtTok(UserA), UserA, UserA, 1),
      Federated(ExtTok(UserB), UserB, UserB, MaxTime + 1) }
ChangingOtherArgs == { UserA, UserB }

NextDMSessionChange ==
    \/ \E p \in Callers, other_user_id \in ChangingOtherArgs :
          GetOrCreateDmConversation(p, other_user_id)
    \/ \E p \in Callers, ok \in BOOLEAN : DmBegin(p, ok)
    \/ \E p \in Callers, ok \in BOOLEAN : DmSelect(p, ok)
    \/ \E p \in Callers, ok \in BOOLEAN : DmInsert(p, ok)
    \/ \E p \in Callers, ok \in BOOLEAN : DmRequery(p, ok)
    \/ \E p \in Callers, ok \in BOOLEAN : DmParticipants(p, ok)
    \/ \E p \in Callers, ok \in BOOLEAN : DmCommit(p, ok)
    \/ \E a \in ChangingSessions : SyncOauthSession(a[1], a[2], a[3], a[4], a[5], a[6])
    \/ SignOut
    \/ Tick

SpecDMSessionChange == Init /\ [][NextDMSessionChange]_vars

(***************************************************************************)
(* refresh_session on a Session that has expired: the only Session the     *)
(* frontend synchronises here has its expiry instant in the past, so every *)
(* Session held before the provider first issues credentials is expired.   *)
(***************************************************************************)
\* after a login of UserB whose credentials have run out: expires_at = 0
ExpiredSessions == { Federated(ExtTok(UserB), UserB, UserB, 0) }

NextRefreshExpired ==
    \/ Tick
    \/ \E a \in ExpiredSessions : SyncOauthSession(a[1], a[2], a[3], a[4], a[5], a[6])
    \/ SignOut
    \/ GetUserId
    \/ GetUserIdFromStore
    \/ RefreshSession
    \/ \E tok \in RefreshToks, shape \in TokenShapes, d \in ExpiresIn :
          RefreshTokens(tok, shape, d)
    \/ \E tok \in RefreshToks : RefreshNoResult(tok)
    \/ \E tok \in RefreshToks : RefreshFails(tok)

SpecRefreshExpired == Init /\ [][NextRefreshExpired]_vars

(***************************************************************************)
(* friends.rs: send_friend_request, accept_friend_request, remove_friend.  *)
(* Every statement runs on the pool by itself (no transaction): it is      *)
(* applied and committed as one step, or it reports an error and has       *)
(* applied nothing.  The statements of the file name no conflict target    *)
(* and no lock; the tables are modelled with the columns the statements    *)
(* use and a generated id.                                                 *)
(***************************************************************************)
MaxRequests == 2

\* struct FriendsResult
FriendsResult(ok, err) == [success |-> ok, error |-> err]

\* table profiles: the username of user u is u followed by 'n'; the table is
\* not written by the commands modelled here
NameOf(u) == u \o << 110 >>
Profiles == { [user_id |-> u, username |-> NameOf(u)] : u \in { UserA, UserB } }

\* SELECT user_id FROM profiles WHERE username = $1
SelectProfile(username) == { r \in Profiles : r.username = username }

\* SELECT id FROM friends WHERE user_id = $1 AND friend_id = $2
SelectFriend(rows, user_id, friend_id) ==
    { r \in rows : r.user_id = user_id /\ r.friend_id = friend_id }

\* sensitivity check for C35: a DELETE of the caller's direction only
FriendRowsBetweenOneWay(rows, user_id, friend_id) ==
    { r \in rows : r.user_id = user_id /\ r.friend_id = friend_id }

\* DELETE FROM friends WHERE (user_id = $1 AND friend_id = $2)
\*                        OR (user_id = $2 AND friend_id = $1): the rows it deletes
FriendRowsBetween(rows, user_id, friend_id) ==
    { r \in rows : \/ r.user_id = user_id /\ r.friend_id = friend_id
                   \/ r.user_id = friend_id /\ r.friend_id = user_id }

\* SELECT id FROM friend_requests WHERE status = 'pending' AND ((from_user_id =
\* $1 AND to_user_id = $2) OR (from_user_id = $2 AND to_user_id = $1))
SelectPendingBetween(rows, a, b) ==
    { r \in rows : /\ r.status = "pending"
                   /\ \/ r.from_user_id = a /\ r.to_user_id = b
                      \/ r.from_user_id = b /\ r.to_user_id = a }

\* SELECT from_user_id, to_user_id FROM friend_requests
\* WHERE id = $1::uuid AND to_user_id = $2 AND status = 'pending'
SelectPendingFor(rows, request_id, user_id) ==
    { r \in rows : r.id = request_id /\ r.to_user_id = user_id /\ r.status = "pending" }

\* the generated ids of new rows
NewRequestId == Cardinality(friend_requests) + 1
NewFriendIds ==
    LET used == { r.id : r \in friends }
        a == CHOOSE i \in 1..(Cardinality(used) + 1) : i \notin used
        b == CHOOSE i \in 1..(Cardinality(used) + 2) : i \notin used /\ i # a
    IN << a, b >>

\* the command returns r; its locals are dropped
TaskDone(p, r) ==
    task' = [task EXCEPT ![p] = [IdleTask EXCEPT !.pc = "done", !.cmd = task[p].cmd,
                                                 !.result = Some(r)]]

\* the command returns r after its INSERT has been applied
TaskDoneInserted(p, r) ==
    task' = [task EXCEPT ![p] = [IdleTask EXCEPT !.pc = "done", !.cmd = task[p].cmd,
                                                 !.result = Some(r), !.inserted = TRUE]]

\* send_friend_request: the gate and the test of to_username
SendFriendRequest(p, to_username) ==
    /\ task[p].pc = "idle"
    /\ LET gate == friends_get_user_id_from_store(session, now)
       IN IF ~gate.ok
          THEN task' = [task EXCEPT ![p].pc = "done", ![p].cmd = "send_friend_request",
                                    ![p].result = Some(Err(gate.err))]
          ELSE IF Trim(to_username) = EmptyStr
          THEN task' = [task EXCEPT ![p].pc = "done", ![p].cmd = "send_friend_request",
                                    ![p].result = Some(Ok(FriendsResult(FALSE,
                                                     Some("Username is required"))))]
          ELSE task' = [task EXCEPT ![p].pc = "lookup", ![p].cmd = "send_friend_request",
                                    ![p].user_id = gate.val, ![p].from_user_id = gate.val,
                                    ![p].arg = to_username]
    /\ UNCHANGED << gateVars, dmVars, friend_requests, friends, messages >>

\* the profile lookup answers; the test against the caller's own id
FrLookup(p, ok) ==
    /\ task[p].pc = "lookup"
    /\ LET target == SelectProfile(Trim(task[p].arg))
       IN IF ~ok THEN TaskDone(p, Err("Database error"))
          ELSE IF target = {}
          THEN TaskDone(p, Ok(FriendsResult(FALSE, Some("User not found"))))
          ELSE \E t \in target :
                  IF t.user_id = task[p].from_user_id
                  THEN TaskDone(p, Ok(FriendsResult(FALSE,
                                   Some("You cannot send a friend request to yourself"))))
                  ELSE task' = [task EXCEPT ![p].pc = "friend_check",
                                            ![p].to_user_id = t.user_id]
    /\ UNCHANGED << gateVars, dmVars, friend_requests, friends, messages >>

\* "Check if already friends" answers
FrFriendCheck(p, ok) ==
    /\ task[p].pc = "friend_check"
    /\ IF ~ok THEN TaskDone(p, Err("Database error"))
       ELSE IF SelectFriend(friends, task[p].from_user_id, task[p].to_user_id) # {}
       THEN TaskDone(p, Ok(FriendsResult(FALSE,
                        Some("You are already friends with this user"))))
       ELSE task' = [task EXCEPT ![p].pc = "request_check"]
    /\ UNCHANGED << gateVars, dmVars, friend_requests, friends, messages >>

\* "Check for existing pending request (in either direction)" answers
FrRequestCheck(p, ok) ==
    /\ task[p].pc = "request_check"
    /\ IF ~ok THEN TaskDone(p, Err("Database error"))
       ELSE IF SelectPendingBetween(friend_requests, task[p].from_user_id,
                                    task[p].to_user_id) # {}
       THEN TaskDone(p, Ok(FriendsResult(FALSE,
                        Some("A friend request already exists between you and this user"))))
       ELSE task' = [task EXCEPT ![p].pc = "insert"]
    /\ UNCHANGED << gateVars, dmVars, friend_requests, friends, messages >>

\* the constraints of table friend_requests that a new row is checked against:
\* the relational store is described with one uniqueness constraint, the one on
\* direct conversations, and none on friend requests
FriendRequestsAdmits(rows, row) == row.id \notin { r.id : r \in rows }

\* INSERT INTO friend_requests .. VALUES ($1, $2, 'pending') answers
FrInsert(p, ok) ==
    /\ task[p].pc = "insert"
    /\ IF ok
       THEN /\ Cardinality(friend_requests) < MaxRequests
            /\ FriendRequestsAdmits(friend_requests,
                   [id |-> NewRequestId, from_user_id |-> task[p].from_user_id,
                    to_user_id |-> task[p].to_user_id, status |-> "pending"])
            /\ friend_requests' = friend_requests \cup
                   { [id |-> NewRequestId, from_user_id |-> task[p].from_user_id,
                      to_user_id |-> task[p].to_user_id, status |-> "pending"] }
            /\ TaskDoneInserted(p, Ok(FriendsResult(TRUE, None)))
       ELSE /\ TaskDone(p, Ok(FriendsResult(FALSE, Some("Failed to send friend request"))))
            /\ UNCHANGED friend_requests
    /\ UNCHANGED << gateVars, dmVars, friends, messages >>

\* accept_friend_request: the gate
AcceptFriendRequest(p, request_id) ==
    /\ task[p].pc = "idle"
    /\ LET gate == friends_get_user_id_from_store(session, now)
       IN IF ~gate.ok
          THEN task' = [task EXCEPT ![p].pc = "done", ![p].cmd = "accept_friend_request",
                                    ![p].result = Some(Err(gate.err))]
          ELSE task' = [task EXCEPT ![p].pc = "acc_select", ![p].cmd = "accept_friend_request",
                                    ![p].user_id = gate.val, ![p].arg = request_id]
    /\ UNCHANGED << gateVars, dmVars, friend_requests, friends, messages >>

\* "Verify this request is for the current user and get the sender" answers
AccSelect(p, ok) ==
    /\ task[p].pc = "acc_select"
    /\ LET request == SelectPendingFor(friend_requests, task[p].arg, task[p].user_id)
       IN IF ~ok THEN TaskDone(p, Err("Database error"))
          ELSE IF request = {}
          THEN TaskDone(p, Ok(FriendsResult(FALSE, Some("Friend request not found"))))
          ELSE \E r \in request :
                  task' = [task EXCEPT ![p].pc = "acc_update",
                                       ![p].from_user_id = r.from_user_id,
                                       ![p].to_user_id = r.to_user_id]
    /\ UNCHANGED << gateVars, dmVars, friend_requests, friends, messages >>

\* UPDATE friend_requests SET status = 'accepted' WHERE id = $1::uuid answers
AccUpdate(p, ok) ==
    /\ task[p].pc = "acc_update"
    /\ IF ok
       THEN /\ friend_requests' =
                   { IF r.id = task[p].arg THEN [r EXCEPT !.status = "accepted"] ELSE r :
                       r \in friend_requests }
            /\ task' = [task EXCEPT ![p].pc = "acc_insert"]
       ELSE /\ TaskDone(p, Err("Database error"))
            /\ UNCHANGED friend_requests
    /\ UNCHANGED << gateVars, dmVars, friends, messages >>

\* INSERT INTO friends (user_id, friend_id) VALUES ($1, $2), ($2, $1) answers;
\* req is history: the request the rows were created for
AccInsert(p, ok) ==
    /\ task[p].pc = "acc_insert"
    /\ IF ok
       THEN /\ friends' = friends \cup
                   { [id |-> NewFriendIds[1], user_id |-> task[p].from_user_id,
                      friend_id |-> task[p].to_user_id, req |-> task[p].arg],
                     [id |-> NewFriendIds[2], user_id |-> task[p].to_user_id,
                      friend_id |-> task[p].from_user_id, req |-> task[p].arg] }
            /\ TaskDoneInserted(p, Ok(FriendsResult(TRUE, None)))
       ELSE /\ TaskDone(p, Err("Database error"))
            /\ UNCHANGED friends
    /\ UNCHANGED << gateVars, dmVars, friend_requests, messages >>

\* remove_friend: the gate
RemoveFriend(p, friend_id) ==
    /\ task[p].pc = "idle"
    /\ LET gate == friends_get_user_id_from_store(session, now)
       IN IF ~gate.ok
          THEN task' = [task EXCEPT ![p].pc = "done", ![p].cmd = "remove_friend",
                                    ![p].result = Some(Err(gate.err))]
          ELSE task' = [task EXCEPT ![p].pc = "rm_delete", ![p].cmd = "remove_friend",
                                    ![p].user_id = gate.val, ![p].arg = friend_id]
    /\ UNCHANGED << gateVars, dmVars, friend_requests, friends, messages >>

\* the DELETE answers
RmDelete(p, ok) ==
    /\ task[p].pc = "rm_delete"
    /\ IF ok
       THEN /\ friends' = friends \ FriendRowsBetween(friends, task[p].user_id, task[p].arg)
            /\ TaskDone(p, Ok(FriendsResult(TRUE, None)))
       ELSE /\ TaskDone(p, Ok(FriendsResult(FALSE, Some("Failed to remove friend"))))
            /\ UNCHANGED friends
    /\ UNCHANGED << gateVars, dmVars, friend_requests, messages >>

\* the frontend has the result; the caller is free for the next invocation
TaskReturn(p) ==
    /\ task[p].pc = "done"
    /\ task' = [task EXCEPT ![p] = IdleTask]
    /\ UNCHANGED << gateVars, dmVars, friend_requests, friends, messages >>

\* to_username as the frontend passes it: the two users' names and " "
UsernameArgs == { NameOf(UserA), NameOf(UserB), << 32 >> }

(***************************************************************************)
(* accept_friend_request and remove_friend interleaved: user a1 sends the  *)
(* request to a2, who accepts it; either of them removes the other.  The   *)
(* SELECT statements are answered without error here.                      *)
(***************************************************************************)
NextFriendsRemove ==
    \/ \E p \in Callers : SendFriendRequest(p, NameOf(UserB))
    \/ \E p \in Callers : FrLookup(p, TRUE)
    \/ \E p \in Callers : FrFriendCheck(p, TRUE)
    \/ \E p \in Callers : FrRequestCheck(p, TRUE)
    \/ \E p \in Callers : FrInsert(p, TRUE)
    \/ \E p \in Callers : AcceptFriendRequest(p, 1)
    \/ \E p \in Callers : AccSelect(p, TRUE)
    \/ \E p \in Callers, ok \in BOOLEAN : AccUpdate(p, ok)
    \/ \E p \in Callers, ok \in BOOLEAN : AccInsert(p, ok)
    \/ \E p \in Callers, friend_id \in { UserA, UserB } : RemoveFriend(p, friend_id)
    \/ \E p \in Callers, ok \in BOOLEAN : RmDelete(p, ok)
    \/ \E p \in Callers : TaskReturn(p)
    \/ \E a \in DmSessions : SyncOauthSession(a[1], a[2], a[3], a[4], a[5], a[6])

SpecFriendsRemove == Init /\ [][NextFriendsRemove]_vars

(***************************************************************************)
(* send_friend_request and accept_friend_request: concurrent callers under *)
(* the Sessions of the two users, against a store whose statements may     *)
(* fail; no friendship is removed.                                         *)
(***************************************************************************)
NextFriendsAccept ==
    \/ \E p \in Callers, to_username \in UsernameArgs : SendFriendRequest(p, to_username)
    \/ \E p \in Callers, ok \in BOOLEAN : FrLookup(p, ok)
    \/ \E p \in Callers, ok \in BOOLEAN : FrFriendCheck(p, ok)
    \/ \E p \in Callers, ok \in BOOLEAN : FrRequestCheck(p, ok)
    \/ \E p \in Callers, ok \in BOOLEAN : FrInsert(p, ok)
    \/ \E p \in Callers, request_id \in 1..MaxRequests : AcceptFriendRequest(p, request_id)
    \/ \E p \in Callers, ok \in BOOLEAN : AccSelect(p, ok)
    \/ \E p \in Callers, ok \in BOOLEAN : AccUpdate(p, ok)
    \/ \E p \in Callers, ok \in BOOLEAN : AccInsert(p, ok)
    \/ \E p \in Callers : TaskReturn(p)
    \/ \E a \in DmSessions : SyncOauthSession(a[1], a[2], a[3], a[4], a[5], a[6])

SpecFriendsAccept == Init /\ [][NextFriendsAccept]_vars

(***************************************************************************)
(* send_message (conversations.rs).  The statements run on the pool, each  *)
(* in its own transaction, and read the committed tables.                  *)
(*   content: [lead, body, trail], the number of bytes of leading          *)
(*   whitespace, of the text from the first to the last byte that is not   *)
(*   whitespace, and of trailing whitespace; a content of whitespace only  *)
(*   has body = 0.                                                         *)
(*   messages: rows [id, conversation_id, sender_id, content, timestamp]   *)
(***************************************************************************)
\* number of rows of table messages
MaxMessages == 2
\* `content.len() > 5000`
MaxContentLen == 5000

\* struct MessageResult
MessageResult(ok, err) == [success |-> ok, error |-> err]

Content(lead, body, trail) == [lead |-> lead, body |-> body, trail |-> trail]
\* content.len(): the length in bytes, whitespace included
ContentLen(c) == c.lead + c.body + c.trail
\* content.trim()
ContentTrim(c) == Content(0, c.body, 0)
\* content.trim().is_empty()
ContentIsEmpty(c) == ContentLen(ContentTrim(c)) = 0

\* id::text of conversation i: "c1", "c2", ..
ConversationIdText(i) == << 99, 48 + i >>

\* sensitivity check for C38: a participant test that leaves out user_id = $2
SelectParticipantAnyUser(rows, conversation_id, user_id) ==
    { r \in rows : ConversationIdText(r.conversation_id) = UuidOf(conversation_id) }

\* SELECT user_id FROM conversation_participants
\* WHERE conversation_id = $1::uuid AND user_id = $2
SelectParticipant(rows, conversation_id, user_id) ==
    { r \in rows : /\ ConversationIdText(r.conversation_id) = UuidOf(conversation_id)
                   /\ r.user_id = user_id }

\* send_message: the gate and the validation of content and conversation_id
SendMessage(p, conversation_id, content) ==
    /\ task[p].pc = "idle"
    /\ LET gate == get_user_id_from_store(session, now)
           fail(r) == task' = [task EXCEPT ![p].pc = "done", ![p].cmd = "send_message",
                                           ![p].result = Some(r)]
       IN IF ~gate.ok THEN fail(Err(gate.err))
          ELSE IF ContentIsEmpty(content)
          THEN fail(Ok(MessageResult(FALSE, Some("Message content cannot be empty"))))
          ELSE IF ContentLen(content) > MaxContentLen
          THEN fail(Ok(MessageResult(FALSE,
                       Some("Message content too long (max 5000 characters)"))))
          ELSE IF ~UuidParseOk(conversation_id)
          THEN fail(Ok(MessageResult(FALSE, Some("Invalid conversation ID"))))
          ELSE task' = [task EXCEPT ![p].pc = "msg_check", ![p].cmd = "send_message",
                                    ![p].user_id = gate.val,
                                    ![p].arg = [conversation_id |-> conversation_id,
                                                content |-> content]]
    /\ UNCHANGED << gateVars, dmVars, friend_requests, friends, messages >>

\* "Verify user is a participant" answers
MsgCheck(p, ok) ==
    /\ task[p].pc = "msg_check"
    /\ IF ~ok THEN TaskDone(p, Err("Database error"))
       ELSE IF SelectParticipant(participants, task[p].arg.conversation_id,
                                 task[p].user_id) = {}
       THEN TaskDone(p, Ok(MessageResult(FALSE,
                        Some("You are not a participant in this conversation"))))
       ELSE task' = [task EXCEPT ![p].pc = "msg_insert"]
    /\ UNCHANGED << gateVars, dmVars, friend_requests, friends, messages >>

\* the row of INSERT INTO messages (..) VALUES ($1::uuid, $2, $3, $4), bound to
\* conversation_id, sender_id, content.trim() and the timestamp
MessageRow(p) ==
    [id |-> Cardinality(messages) + 1,
     conversation_id |-> UuidOf(task[p].arg.conversation_id),
     sender_id |-> task[p].user_id,
     content |-> ContentTrim(task[p].arg.content),
     timestamp |-> now]

\* INSERT INTO messages answers, then the UPDATE of conversations.updated_at,
\* whose result is dropped (updated_at is not a column of this model)
MsgInsert(p, ok) ==
    /\ task[p].pc = "msg_insert"
    /\ IF ok
       THEN /\ Cardinality(messages) < MaxMessages
            /\ messages' = messages \cup { MessageRow(p) }
            /\ TaskDoneInserted(p, Ok(MessageResult(TRUE, None)))
       ELSE /\ TaskDone(p, Ok(MessageResult(FALSE, Some("Failed to send message"))))
            /\ UNCHANGED messages
    /\ UNCHANGED << gateVars, dmVars, friend_requests, friends >>

\* conversation_id as the frontend passes it: "c1", "C1" and "g1"
ConversationIdArgs == { ConversationIdText(1), << 67, 49 >>, Malformed }
\* content as the frontend passes it: whitespace only; a text that with its
\* blanks has the greatest length; a text of that length after one blank
ContentArgs ==
    { Content(2, 0, 0), Content(1, MaxContentLen - 2, 1), Content(1, MaxContentLen, 0) }
\* the Sessions of a1 and of a3
MessageSessions ==
    { Federated(ExtTok(UserA), UserA, UserA, MaxTime + 1),
      Federated(ExtTok(UserC), UserC, UserC, MaxTime + 1) }
\* the caller that invokes get_or_create_dm_conversation
DmCallers == { 1 }

(***************************************************************************)
(* send_message beside get_or_create_dm_conversation: a1 or a3 creates the *)
(* conversation with a2 (one invocation, against a store that answers),    *)
(* and both send messages to it.                                           *)
(***************************************************************************)
NextMessages ==
    \/ \E p \in DmCallers : GetOrCreateDmConversation(p, UserB)
    \/ \E p \in DmCallers : DmBegin(p, TRUE)
    \/ \E p \in DmCallers : DmSelect(p, TRUE)
    \/ \E p \in DmCallers : DmInsert(p, TRUE)
    \/ \E p \in DmCallers : DmParticipants(p, TRUE)
    \/ \E p \in DmCallers : DmCommit(p, TRUE)
    \/ \E p \in Callers, conversation_id \in ConversationIdArgs, content \in ContentArgs :
          SendMessage(p, conversation_id, content)
    \/ \E p \in Callers, ok \in BOOLEAN : MsgCheck(p, ok)
    \/ \E p \in Callers, ok \in BOOLEAN : MsgInsert(p, ok)
    \/ \E p \in Callers : TaskReturn(p)
    \/ \E a \in MessageSessions : SyncOauthSession(a[1], a[2], a[3], a[4], a[5], a[6])

SpecMessages == Init /\ [][NextMessages]_vars

(***************************************************************************)
(* Properties of the conversation deduplicator, checked under SpecDM.      *)
(***************************************************************************)

\* C1: in every committed store state at most one direct conversation row
\* carries a given canonical key, however the concurrent calls for (A,B) and
\* (B,A) and their transactions interleave.
C1_AtMostOneDirectRowPerKey ==
    \A r1, r2 \in conversations :
        (r1.type = "direct" /\ r2.type = "direct"
            /\ r1.dm_participant_key = r2.dm_participant_key) => r1 = r2

\* C1 witness: the row of a pair is committed while another caller, whose
\* SELECT had found nothing, has run into the conflict and is re-querying.
C1_Witness ==
    \E p \in Callers :
        /\ call[p].pc = "requery"
        /\ ~call[p].faulted
        /\ \E r \in conversations : r.dm_participant_key = call[p].dm_key

\* C2: every call for a valid pair A # B that passes the gate and meets no
\* store error returns success with a conversation identifier, and all the
\* successful calls for one unordered pair return the same identifier,
\* whichever of the two users was the caller.
C2_AllCallsSameConversation ==
    /\ \A p \in Callers :
          (call[p].pc = "done" /\ call[p].gated /\ ~call[p].faulted
              /\ UuidParseOk(call[p].other_user_id)
              /\ call[p].other_user_id # call[p].user_id)
          => /\ call[p].result[1].ok
             /\ call[p].result[1].val.success
             /\ call[p].result[1].val.conversation_id # None
             /\ << { call[p].user_id, call[p].other_user_id },
                    call[p].result[1].val.conversation_id[1] >> \in returned
    /\ \A x, y \in returned : x[1] = y[1] => x[2] = y[2]

\* C2 witness: two calls that raced, one naming B as caller A and one naming
\* A as caller B, have both returned success: one created the row, the other
\* took the conflict path.
C2_Witness ==
    \E p, q \in Callers :
        /\ call[p].pc = "done" /\ call[q].pc = "done"
        /\ call[p].path = "created" /\ call[q].path = "conflict"
        /\ call[p].user_id = call[q].other_user_id
        /\ call[p].other_user_id = call[q].user_id
        /\ call[p].result[1].ok /\ call[p].result[1].val.success
        /\ call[q].result[1].ok /\ call[q].result[1].val.success

\* C3: every committed direct conversation row has exactly two participant
\* rows, those of the two users of its canonical key; no row is committed
\* with fewer, also when the participant insert or the commit fails or a
\* racing caller takes the conflict path.
C3_TwoParticipantsPerConversation ==
    \A c \in conversations :
        LET members == { r \in participants : r.conversation_id = c.id }
        IN /\ Cardinality(members) = 2
           /\ \E m1, m2 \in members :
                 /\ m1.user_id # m2.user_id
                 /\ c.dm_participant_key = m1.user_id \o << 58 >> \o m2.user_id

\* C3 witness: a conversation is committed, and a call that had inserted a
\* conversation row of its own has ended in a store error; that row is not
\* among the committed ones.
C3_Witness ==
    /\ conversations # {}
    /\ \E p \in Callers :
          /\ call[p].pc = "done"
          /\ call[p].path = "created"
          /\ call[p].faulted
          /\ \A c \in conversations : c.id # call[p].conversation_id[1]

C5_KeyOrderIndependent ==
    LET ids == { UserA, UserB, << 97 >>, << 97, 49, 48 >>, Malformed }
    IN /\ \A p, q \in Callers :
             (call[p].dm_key # EmptyStr /\ call[q].dm_key # EmptyStr
                 /\ call[p].user_id = call[q].other_user_id
                 /\ call[p].other_user_id = call[q].user_id)
             => call[p].dm_key = call[q].dm_key
       /\ \A a, b \in ids : a # b => DmKey(a, b) = DmKey(b, a)

\* C5 witness: two calls in flight with the arguments swapped have both
\* computed their key.
C5_Witness ==
    \E p, q \in Callers :
        /\ call[p].user_id # call[q].user_id
        /\ call[p].user_id = call[q].other_user_id
        /\ call[p].other_user_id = call[q].user_id
        /\ call[p].dm_key # EmptyStr
        /\ call[q].dm_key # EmptyStr

(***************************************************************************)
(* Properties of the session gate, checked under SpecGate.  `last` holds   *)
(* the command that returned last; no step that keeps `last` changes the   *)
(* slot or the clock, so a state with last.op = X is the state X returned  *)
(* in.                                                                     *)
(***************************************************************************)

\* C6: get_user_id, get_auth_token, get_session and the gate
\* get_user_id_from_store yield the identity / token of the held Session iff
\* a Session is held and its expires_at is strictly greater than the clock
\* reading; with now >= expires_at (now = expires_at included) or no Session
\* they report none / an authorization failure.
C6_ReadsYieldIffUnexpired ==
    LET live == session # None /\ session[1].expires_at > now
    IN /\ last.op = "get_user_id" =>
             last.ret = IF live THEN << session[1].user_id >> ELSE << >>
       /\ last.op = "get_auth_token" =>
             last.ret = IF live THEN << session[1].access_token >> ELSE << >>
       /\ last.op = "get_session" =>
             IF live
             THEN /\ last.ret # << >>
                  /\ last.ret[1].user_id = session[1].user_id
                  /\ last.ret[1].email = session[1].email
                  /\ last.ret[1].is_authenticated
             ELSE last.ret = << >>
       /\ last.op = "get_user_id_from_store" =>
             /\ last.ret.ok <=> live
             /\ live => last.ret.val = session[1].user_id

\* C6 witness: the gate has refused a held Session at now = expires_at.
C6_Witness ==
    /\ last.op = "get_user_id_from_store"
    /\ session # None
    /\ session[1].expires_at = now
    /\ ~last.ret.ok

\* C7: the reads leave the slot as it is, an expired Session included (same
\* fields); the slot changes only in a step of sign_in, sync_oauth_session,
\* refresh_session or sign_out.
C7_ReadsLeaveSlotUnchanged ==
    [][/\ last'.op \in { "get_user_id", "get_auth_token", "get_session",
                         "get_user_id_from_store" } => session' = session
       /\ session' # session =>
             last'.op \in { "sign_in", "sync_oauth_session", "refresh_session",
                            "sign_out" }]_vars

\* C7 witness: a read has found the Session expired and reported none; the
\* Session is still in the slot.
C7_Witness ==
    /\ last.op = "get_user_id"
    /\ last.ret = << >>
    /\ session # None
    /\ session[1].expires_at <= now

\* C8: when sign_out returns the slot is empty, also when it was empty
\* before (sign_out succeeds then too); while the slot is empty get_user_id
\* reports no identity, and the slot stays empty until sign_in or
\* sync_oauth_session installs a Session.
C8_SignOutEmptiesSlot ==
    [][/\ last'.op = "sign_out" =>
             /\ session' = << >>
             /\ last'.ret.ok
             /\ last'.ret.val
       /\ (session = << >> /\ last'.op = "get_user_id") => last'.ret = << >>
       /\ (session = << >> /\ session' # << >>) =>
             last'.op \in { "sign_in", "sync_oauth_session" }]_vars

\* C8 witness: sign_out has returned on a slot that was already empty.
C8_Witness ==
    /\ last.op = "sign_out"
    /\ ~last.held
    /\ session = << >>

\* C9: after a sign_in whose tokens carry subject id s and lifetime d > 0,
\* installed at clock reading t, and while no other write of the slot has
\* followed, get_user_id returns s at every clock reading before t + d and
\* no identity at every clock reading from t + d on.
C9_IdentityUntilExpiry ==
    (installed # << >> /\ installed[1].d > 0 /\ last.op = "get_user_id") =>
        /\ now < installed[1].at + installed[1].d => last.ret = << installed[1].sub >>
        /\ now >= installed[1].at + installed[1].d => last.ret = << >>

\* C9 witness: get_user_id has reported no identity at the very clock reading
\* t + d, for a Session installed after the clock had advanced.
C9_Witness ==
    /\ installed # << >>
    /\ installed[1].at > 0
    /\ now = installed[1].at + installed[1].d
    /\ last.op = "get_user_id"
    /\ last.ret = << >>

\* C10: whenever refresh_session was called with a Session held and the
\* identity provider did not deliver new tokens (an error, or a response
\* without an authentication result), the call returns false and the slot is
\* empty afterward.
C10_RefreshFailClosed ==
    (last.op = "refresh_session" /\ last.held /\ last.why \in { "error", "no_result" }) =>
        /\ last.ret.ok
        /\ ~last.ret.val
        /\ session = << >>

\* C10 witness: refresh_session has returned false on a response without an
\* authentication result, and the Session it was called with is still in the
\* slot and not expired.
C10_Witness ==
    /\ last.op = "refresh_session"
    /\ last.held
    /\ last.why = "no_result"
    /\ last.ret.ok /\ ~last.ret.val
    /\ session # << >>
    /\ session[1].expires_at > now

\* C10, the part the code keeps: a refresh the provider answers with an
\* error returns false and leaves the slot empty.
C10_RefreshErrorClearsSlot ==
    (last.op = "refresh_session" /\ last.held /\ last.why = "error") =>
        /\ last.ret.ok
        /\ ~last.ret.val
        /\ session = << >>

\* the number of refresh_session invocations waiting on the identity provider
RefreshRequests(bag) ==
    LET ws == { w \in BagToSet(bag) : w.cmd = "refresh" }
        sum[S \in SUBSET ws] ==
            IF S = {} THEN 0
            ELSE LET w == CHOOSE x \in S : TRUE IN CopiesIn(w, bag) + sum[S \ {w}]
    IN sum[ws]

\* C11: refresh_session called on an empty slot returns false, sends no
\* request to the identity provider, and leaves the slot empty.
C11_RefreshOnEmptySlot ==
    [][/\ session = << >> => RefreshRequests(pending') <= RefreshRequests(pending)
       /\ (last'.op = "refresh_session" /\ ~last'.held) =>
             /\ last'.ret = Ok(FALSE)
             /\ session' = << >>
       /\ (last'.op = "refresh_session" /\ ~last'.held /\ last' # last) =>
             /\ session = << >>
             /\ pending' = pending
             /\ issued' = issued]_vars

\* C11 witness: refresh_session has returned false on an empty slot while a
\* sign_in was waiting on the provider.
C11_Witness ==
    /\ last.op = "refresh_session"
    /\ ~last.held
    /\ last.ret = Ok(FALSE)
    /\ session = << >>
    /\ pending # EmptyBag

\* C12: a refresh the provider answers with new tokens, written back to a held
\* Session: the access credential, the identity credential and the expiry
\* become the provider's new values (an absent credential the empty string,
\* the expiry the clock reading plus the new lifetime), subject id and contact
\* address are those decoded from the new identity credential, the refresh
\* credential stays the one of the slot, and the call returns true.  With no
\* write between the two critical sections the new credentials are those of
\* the owner of the refresh credential in the slot.
C12_RefreshReplacesCredentials ==
    [][(issued' # issued /\ last'.op = "refresh_session" /\ session # << >>) =>
          /\ last'.ret = Ok(TRUE)
          /\ session' # << >>
          /\ \E tok \in RefreshToks, shape \in TokenShapes, d \in ExpiresIn :
                LET new == session'[1]
                    old == session[1]
                    decoded == decode_id_token(new.id_token)
                IN /\ pending' = pending (-) SetToBag({Waiting("refresh", tok)})
                   /\ new.access_token = IssuedAccess(shape, tok.owner, issued')
                   /\ new.id_token = IssuedId(shape, tok.owner, issued')
                   /\ new.expires_at = now + d
                   /\ new.user_id = decoded[1]
                   /\ new.email = decoded[2]
                   /\ new.refresh_token = old.refresh_token
                   /\ new.access_token # old.access_token \/ new.access_token = EmptyTok
                   /\ (RefreshToks = { old.refresh_token }) =>
                         tok.owner = old.refresh_token.owner]_vars

\* C12 witness: a Session installed by sign_in has been refreshed after the
\* clock had advanced: it carries the second token set of the provider, the
\* refresh credential of the first, and an expiry counted from the refresh.
C12_Witness ==
    /\ last.op = "refresh_session"
    /\ last.why = "tokens"
    /\ last.ret = Ok(TRUE)
    /\ session # << >>
    /\ session[1].refresh_token = Tok(UserA, 1)
    /\ session[1].access_token = Tok(UserA, 2)
    /\ session[1].id_token = IdTok(UserA, 2)
    /\ session[1].user_id = UserA
    /\ session[1].expires_at > 2

\* C13: a sign_in that fails (empty e-mail, empty password, invalid
\* credentials, unknown user, unconfirmed user, a response without an
\* authentication result, any other error) leaves the slot exactly as it was;
\* a sign_in that succeeds replaces the whole content of the slot in one
\* step: all six fields of the new Session come from the tokens just issued.
C13_SignInFailureKeepsSlot ==
    [][/\ (last'.op = "sign_in" /\ ~last'.ret.success) =>
             /\ session' = session
             /\ last'.why \in SignInFailures \cup { "" }
             /\ last'.ret.error # << >>
       /\ (last'.op = "sign_in" /\ issued' # issued) =>
             /\ last'.ret.success
             /\ \E u \in Users, shape \in TokenShapes, d \in ExpiresIn :
                   LET id_token == IssuedId(shape, u, issued')
                       decoded == decode_id_token(id_token)
                   IN session' = << Session(IssuedAccess(shape, u, issued'), Tok(u, issued'),
                                            id_token, decoded[1], decoded[2], now + d) >>
       /\ (last'.op = "sign_in" /\ last'.ret.success) => session' # << >>]_vars

\* C13 witness: a sign_in was refused for invalid credentials while the slot
\* held the Session of a federated login; that Session is still in the slot.
C13_Witness ==
    /\ last.op = "sign_in"
    /\ last.held
    /\ last.why = "not_authorized"
    /\ ~last.ret.success
    /\ session # << >>
    /\ session[1].user_id = UserB
    /\ session[1].refresh_token = ExtTok(UserB)

\* C14: sync_oauth_session returns a field error and leaves the slot as it was
\* when the access_token or the user_id it is given is empty; otherwise it
\* replaces whatever the slot held (nothing, a valid Session, an expired one)
\* with a Session of exactly the six supplied fields and returns true.
C14_SyncValidatesAndReplaces ==
    [][(last'.op = "sync_oauth_session" /\ last' # last) =>
          LET a == last'.arg
          IN IF a[1] = EmptyTok \/ a[4] = EmptyStr
             THEN /\ ~last'.ret.ok
                  /\ last'.ret.err = IF a[1] = EmptyTok THEN "Access token is required"
                                                       ELSE "User ID is required"
                  /\ session' = session
             ELSE /\ last'.ret = Ok(TRUE)
                  /\ session' = << [access_token |-> a[1], refresh_token |-> a[2],
                                     id_token |-> a[3], user_id |-> a[4], email |-> a[5],
                                     expires_at |-> a[6]] >>]_vars

\* C14 witness: sync_oauth_session was given an empty user_id while the slot
\* held the Session of a sign_in; it returned the field error and that
\* Session is still in the slot.
C14_Witness ==
    /\ last.op = "sync_oauth_session"
    /\ last.arg # << >>
    /\ last.arg[4] = EmptyStr
    /\ last.arg[1] # EmptyTok
    /\ ~last.ret.ok
    /\ session # << >>
    /\ session[1].user_id = UserA

\* a Session all of whose credentials and identity fields were put there by
\* one write: subject id and contact address are those of its identity
\* credential, and access and identity credential belong to one token set
WholeSession(s) ==
    /\ << s.user_id, s.email >> = decode_id_token(s.id_token)
    /\ \/ s.access_token = EmptyTok
       \/ s.id_token = EmptyIdTok
       \/ /\ s.access_token.n = s.id_token.n
          /\ s.id_token.sub = << s.access_token.owner >>

\* C15: the accesses to the slot are linearizable under every interleaving of
\* sign_in, sync_oauth_session, refresh_session, sign_out and the reads: the
\* slot changes only in the step in which a write command holds the lock, and
\* then to the complete result of that write; a read returns the identity the
\* slot holds at that moment, which is that of the most recent completed
\* write (none once it has expired), whatever commands are waiting on the
\* provider; and the slot never holds a Session part of whose fields were
\* written by a write that is still in progress.
C15_SlotAccessLinearizable ==
    [][/\ session' # session =>
             /\ last'.op \in { "sign_in", "sync_oauth_session", "refresh_session", "sign_out" }
             /\ last'.op = "sign_out" => session' = << >>
             /\ last'.op = "sync_oauth_session" =>
                   session' = << Session(last'.arg[1], last'.arg[2], last'.arg[3],
                                         last'.arg[4], last'.arg[5], last'.arg[6]) >>
             /\ last'.op = "sign_in" =>
                   /\ session' # << >>
                   /\ session'[1].refresh_token.n = issued'
                   /\ session'[1].access_token.n \in { 0, issued' }
                   /\ session'[1].id_token.n \in { 0, issued' }
             /\ (last'.op = "refresh_session" /\ session' # << >>) =>
                   /\ session # << >>
                   /\ session'[1].refresh_token = session[1].refresh_token
                   /\ session'[1].access_token.n \in { 0, issued' }
                   /\ session'[1].id_token.n \in { 0, issued' }
       /\ session' # << >> => WholeSession(session'[1])
       /\ (last'.op = "get_user_id" /\ last' # last) =>
             last'.ret = IF session # << >> /\ now < session[1].expires_at
                         THEN << session[1].user_id >> ELSE << >>]_vars

\* C15 witness: get_user_id has returned the identity of the federated login
\* that was the last write to complete, while a sign_in and a refresh_session
\* begun under the earlier Session were both waiting on the provider.
C15_Witness ==
    /\ last.op = "get_user_id"
    /\ last.ret = << UserB >>
    /\ IsWaiting(Waiting("sign_in", EmptyTok))
    /\ IsWaiting(Waiting("refresh", Tok(UserA, 1)))

\* C16: get_or_create_dm_conversation rejects before the transaction is
\* opened and before any store statement whenever one of the two identifiers
\* is malformed, the caller's own subject id taken from the session or the
\* supplied other_user_id: a call that has passed the gate with a malformed
\* identifier is never at pool.begin() or at a statement, has no transaction,
\* and has returned a rejection.
C16_MalformedIdsRejectedBeforeStore ==
    \A p \in Callers :
        (call[p].gated /\ (~UuidParseOk(call[p].user_id) \/ ~UuidParseOk(call[p].other_user_id)))
        => /\ call[p].pc = "done"
           /\ call[p].tx = NoTx
           /\ call[p].path = ""
           /\ call[p].result[1].ok
           /\ ~call[p].result[1].val.success

\* C16 witness: a call made under a Session whose subject id is not a UUID
\* has committed a conversation row whose key contains that id, and returned
\* success.
C16_Witness ==
    \E p \in Callers :
        /\ call[p].pc = "done"
        /\ ~UuidParseOk(call[p].user_id)
        /\ call[p].path = "created"
        /\ call[p].result[1].ok
        /\ call[p].result[1].val.success
        /\ \E r \in conversations : r.dm_participant_key = DmKey(call[p].user_id, call[p].other_user_id)

\* C16, the part the code keeps: a malformed other_user_id is rejected before
\* the transaction is opened.
C16_OtherUserIdRejected ==
    \A p \in Callers :
        (call[p].gated /\ ~UuidParseOk(call[p].other_user_id))
        => /\ call[p].pc = "done"
           /\ call[p].tx = NoTx
           /\ call[p].path = ""
           /\ call[p].result[1].ok
           /\ ~call[p].result[1].val.success

\* C17: a privileged command consults the gate first: when the slot is empty
\* or the Session is expired at that moment, the command returns the
\* authorization failure at once, without a transaction, a store statement or
\* a request to the identity provider, and the committed rows are those of
\* before; no call is ever at a store step without having passed the gate.
C17_GateBeforeStore ==
    [][\A p \in Callers :
          /\ (call[p].pc = "idle" /\ call'[p].pc # "idle"
                 /\ (session = << >> \/ now >= session[1].expires_at))
             => /\ call'[p].pc = "done"
                /\ ~call'[p].gated
                /\ call'[p].result =
                      << Err(IF session = << >> THEN "Not authenticated. Please sign in."
                                                ELSE "Session expired. Please sign in again.") >>
                /\ call'[p].tx = NoTx
                /\ call'[p].path = ""
                /\ ~call'[p].faulted
                /\ conversations' = conversations
                /\ participants' = participants
                /\ pending' = pending
                /\ session' = session
          /\ call'[p].pc \in { "begin", "select", "insert", "requery", "participants", "commit" }
             => call'[p].gated]_vars

\* C17 witness: a call was refused at the gate because the Session in the
\* slot had expired, while another call, admitted before the expiry, is in
\* its transaction.
C17_Witness ==
    \E p, q \in Callers :
        /\ call[p].pc = "done"
        /\ ~call[p].gated
        /\ call[p].result = << Err("Session expired. Please sign in again.") >>
        /\ session # << >>
        /\ now >= session[1].expires_at
        /\ call[q].pc = "insert"

\* C18: a call whose initial lookup found no row and whose insert then meets
\* the row a concurrent transaction has committed with the same key does not
\* fail: unless a store call reports an error, it looks the row up by the
\* key, commits and returns success with the identifier of the committed
\* row, and neither its transaction nor its commit adds a conversation or a
\* participant row.
C18_ConflictReturnsWinner ==
    [][\A p \in Callers :
          LET c == call[p]
              d == call'[p]
              winners == { r \in conversations : r.dm_participant_key = c.dm_key }
          IN /\ (c.pc = "insert" /\ d.pc = "requery" /\ ~d.faulted) =>
                   /\ winners # {}
                   /\ d.tx.conversations = {}
                   /\ d.tx.participants = {}
             /\ (c.pc = "requery" /\ ~c.faulted /\ d # c /\ ~d.faulted) =>
                   /\ d.pc = "commit"
                   /\ d.path = "conflict"
                   /\ \E r \in winners : d.conversation_id = << r.id >>
                   /\ d.tx.conversations = {}
                   /\ d.tx.participants = {}
             /\ (c.pc = "commit" /\ c.path = "conflict" /\ d # c /\ ~d.faulted) =>
                   /\ d.pc = "done"
                   /\ d.result = << Ok(ConversationResult(TRUE, c.conversation_id, << >>)) >>
                   /\ \E r \in winners : c.conversation_id = << r.id >>
                   /\ conversations' = conversations
                   /\ participants' = participants]_vars

\* C18 witness: a call has returned success on the conflict path with the
\* identifier of the one committed row, which has its two participants.
C18_Witness ==
    \E p \in Callers :
        /\ call[p].pc = "done"
        /\ call[p].path = "conflict"
        /\ ~call[p].faulted
        /\ call[p].result[1].ok
        /\ call[p].result[1].val.success
        /\ Cardinality(conversations) = 1
        /\ Cardinality(participants) = 2
        /\ \A r \in conversations : call[p].result[1].val.conversation_id = << r.id >>

\* the error string a failed store call of get_or_create_dm_conversation is
\* reported with, by the await it failed at
StoreFailure(pc) ==
    CASE pc = "begin" -> "Failed to start transaction"
      [] pc = "commit" -> "Failed to commit transaction"
      [] OTHER -> "Database error"

\* C19: when a store step of get_or_create_dm_conversation fails for a reason
\* other than the uniqueness conflict (pool.begin(), the lookup, the
\* conversation insert, the participant insert, the re-query or the commit),
\* the call reports a store failure and never success with a conversation
\* id, and none of the rows its transaction has written becomes visible:
\* the committed tables are unchanged by the step in which it returns, and
\* every committed conversation row was committed by a call that returned
\* success.
C19_StoreFailureAborts ==
    [][/\ \A p \in Callers :
             LET c == call[p]
                 d == call'[p]
             IN /\ (d.faulted /\ d.pc = "done") =>
                      /\ d.result # << >>
                      /\ ~d.result[1].ok
                      /\ d.tx = NoTx
                /\ (d.faulted /\ ~c.faulted) =>
                      \/ d.pc = "done" /\ d.result = << Err(StoreFailure(c.pc)) >>
                      \/ c.pc = "insert" /\ d.pc = "requery" /\ d.tx.conversations = {}
                /\ (d.faulted /\ d.pc = "done" /\ c.pc # "done") =>
                      /\ conversations' = conversations
                      /\ participants' = participants
                      /\ returned' = returned
                      /\ d.result = << Err(StoreFailure(c.pc)) >>
       /\ \A r \in conversations' : \E x \in returned' : x[2] = r.id
       /\ \A r \in participants' : \E x \in returned' : x[2] = r.conversation_id]_vars

\* C19 witness: a call whose commit failed after it had inserted a
\* conversation row and two participant rows has reported the failure, and
\* the committed tables are empty.
C19_Witness ==
    \E p \in Callers :
        /\ call[p].pc = "done"
        /\ call[p].faulted
        /\ call[p].path = "created"
        /\ call[p].result = << Err("Failed to commit transaction") >>
        /\ conversations = {}
        /\ participants = {}

\* C20: when the direct conversation of the pair is committed at the time of
\* the initial lookup, the call takes the fast path: it returns the
\* identifier of that row and inserts no conversation row and no participant
\* row.  Repeating the call returns the same identifier, the one every
\* earlier successful call for the pair returned, and leaves the tables as
\* they are.
C20_FastPathReturnsExisting ==
    [][\A p \in Callers :
          LET c == call[p]
              d == call'[p]
              existing == { r \in conversations : r.type = "direct" /\ r.dm_participant_key = c.dm_key }
          IN /\ (c.pc = "select" /\ existing # {} /\ d # c /\ ~d.faulted) =>
                   /\ d.pc = "commit"
                   /\ d.path = "fast"
                   /\ \E r \in existing : d.conversation_id = << r.id >>
                   /\ d.tx.conversations = {}
                   /\ d.tx.participants = {}
             /\ (c.pc = "select" /\ existing = {} /\ d # c) => d.path # "fast"
             /\ (c.pc = "commit" /\ c.path = "fast" /\ d # c) =>
                   /\ conversations' = conversations
                   /\ participants' = participants
                   /\ ~d.faulted =>
                         /\ d.result = << Ok(ConversationResult(TRUE, c.conversation_id, << >>)) >>
                         /\ \E r \in existing : c.conversation_id = << r.id >>
                         /\ \A x \in returned :
                               x[1] = { c.user_id, c.other_user_id } => << x[2] >> = c.conversation_id
                         /\ \E x \in returned : x[1] = { c.user_id, c.other_user_id }]_vars

\* C20 witness: two calls of one user for the same other user have both
\* returned on the fast path with the same identifier, and the tables hold
\* the one conversation row and its two participant rows.
C20_Witness ==
    \E p, q \in Callers :
        /\ p # q
        /\ call[p].pc = "done" /\ call[q].pc = "done"
        /\ call[p].path = "fast" /\ call[q].path = "fast"
        /\ call[p].user_id = call[q].user_id
        /\ call[p].other_user_id = call[q].other_user_id
        /\ call[p].result[1].ok /\ call[q].result[1].ok
        /\ call[p].result[1].val.success /\ call[q].result[1].val.success
        /\ call[p].result[1].val.conversation_id = call[q].result[1].val.conversation_id
        /\ Cardinality(conversations) = 1
        /\ Cardinality(participants) = 2

\* the reasons a command's Err result carries
GateRefusals == { "Not authenticated. Please sign in.", "Session expired. Please sign in again." }
StoreFailures == { StoreFailure(pc) : pc \in { "begin", "select", "commit" } }
FieldErrors == { "Access token is required", "User ID is required" }

\* C21 as stated: every expected failure of sync_oauth_session, sign_in and
\* get_or_create_dm_conversation is returned as a result value with a
\* success flag and a reason; the command's Err result is used only when the
\* session lock cannot be acquired (which no run of the model does).
C21_ErrOnlyOnLockFailure ==
    /\ \A p \in Callers :
          call[p].pc = "done" =>
              /\ call[p].result[1].ok
              /\ ~call[p].result[1].val.success => call[p].result[1].val.error # << >>
    /\ last.op = "sync_oauth_session" => last.ret.ok
    /\ last.op = "sign_in" => (~last.ret.success => last.ret.error # << >>)

\* C21, amended: every expected failure is returned with a human-readable
\* reason, on one of two channels.  As a result value with success = false
\* and the reason in its error field: the failures of sign_in, and the
\* rejection of a malformed other_user_id or of a conversation with oneself.
\* As the command's Err result carrying the reason: a missing or expired
\* session and every store failure of get_or_create_dm_conversation, and the
\* field errors of sync_oauth_session.
C21_FailuresOnTwoChannels ==
    /\ \A p \in Callers :
          call[p].pc = "done" =>
              LET r == call[p].result[1]
              IN IF ~call[p].gated
                 THEN ~r.ok /\ r.err \in GateRefusals
                 ELSE IF call[p].faulted
                 THEN ~r.ok /\ r.err \in StoreFailures
                 ELSE /\ r.ok
                      /\ r.val.success =>
                            r.val.conversation_id # << >> /\ r.val.error = << >>
                      /\ ~r.val.success =>
                            /\ r.val.conversation_id = << >>
                            /\ r.val.error \in { << "Invalid user ID" >>,
                                                  << "Cannot create conversation with yourself" >> }
                            /\ \/ ~UuidParseOk(call[p].other_user_id)
                               \/ call[p].other_user_id = call[p].user_id
    /\ last.op = "sync_oauth_session" =>
          IF last.arg[1] = EmptyTok \/ last.arg[4] = EmptyStr
          THEN ~last.ret.ok /\ last.ret.err \in FieldErrors
          ELSE last.ret = Ok(TRUE)
    /\ last.op = "sign_in" =>
          /\ ~last.ret.success
          /\ last.ret.error # << >>
          /\ last.ret.error[1] \in { SignInError(why) : why \in SignInFailures }
                                      \cup { "Email is required", "Password is required" }
          /\ last.ret.user_id = << >>

\* C21 witness: one call was refused at the gate for an expired session and
\* another has met a store failure, both through the Err result, after a
\* sign_in had been refused with a result value.
C21_Witness ==
    /\ last.op = "sign_in"
    /\ ~last.ret.success
    /\ \E p, q \in Callers :
          /\ call[p].pc = "done" /\ call[q].pc = "done"
          /\ call[p].result = << Err("Session expired. Please sign in again.") >>
          /\ call[q].faulted
          /\ call[q].result = << Err("Database error") >>

\* the position of an await of get_or_create_dm_conversation in its control
\* flow, which has no backward edge
PcRank(pc) ==
    CASE pc = "idle" -> 0
      [] pc = "begin" -> 1
      [] pc = "select" -> 2
      [] pc = "insert" -> 3
      [] pc = "requery" -> 4
      [] pc = "participants" -> 4
      [] pc = "commit" -> 5
      [] OTHER -> 6

\* C22: an invocation of get_or_create_dm_conversation issues a bounded
\* number of store statements and has no retry loop: every step takes it to
\* a later await, so that it passes pool.begin(), the lookup, the insert, one
\* of the re-query and the participant insert, and the commit at most once
\* each.  When the store answers every statement it can answer and serves
\* the waiters fairly, every invocation returns, whatever the concurrent
\* invocations for the same pair or for another pair do: none waits for
\* another forever.
C22_BoundedAndReturns ==
    /\ [][\A p \in Callers :
             call'[p].pc # call[p].pc =>
                 \/ PcRank(call'[p].pc) > PcRank(call[p].pc)
                 \/ call[p].pc = "done" /\ call'[p].pc = "idle"]_vars
    /\ \A p \in Callers :
          (call[p].pc \in { "begin", "select", "insert", "requery", "participants", "commit" })
              ~> (call[p].pc = "done")

\* C22 witness: a call is waiting at its INSERT for the open transaction of
\* another call, which has inserted the row of the same key and has its
\* commit still ahead.
C22_Witness ==
    \E p, q \in Callers :
        /\ p # q
        /\ call[p].pc = "insert"
        /\ call[q].pc = "commit"
        /\ call[q].path = "created"
        /\ ConflictingRows(call[q].tx.conversations, call[p].dm_key) # {}

(***************************************************************************)
(* C23: the lock of the session slot is not held while sign_in or          *)
(* refresh_session waits for the identity provider.  A command that starts *)
(* to wait leaves the slot as it found it; while a sign_in or a            *)
(* refresh_session waits, get_user_id, the gate get_user_id_from_store and *)
(* sign_out can run, and each of them that runs reads (or empties) the     *)
(* slot as it is then, the waiting command having written nothing yet.     *)
(***************************************************************************)
\* the sign_in and refresh_session commands waiting in bag
InFlight(bag) == { w \in BagToSet(bag) : w.cmd \in { "sign_in", "refresh" } }

C23_NoLockAcrossProviderCall ==
    /\ [][/\ BagCardinality(pending') > BagCardinality(pending) => session' = session
          /\ (InFlight(pending) # {} /\ pending' = pending /\ last' # last) =>
                CASE last'.op = "get_user_id" ->
                         /\ last'.ret = get_user_id(session, now)
                         /\ session' = session
                  [] last'.op = "get_user_id_from_store" ->
                         /\ last'.ret = get_user_id_from_store(session, now)
                         /\ session' = session
                  [] last'.op = "sign_out" ->
                         /\ last'.ret = Ok(TRUE)
                         /\ session' = None
                  [] OTHER -> TRUE]_vars
    /\ [](InFlight(pending) # {} =>
             /\ ENABLED GetUserId
             /\ ENABLED GetUserIdFromStore
             /\ ENABLED SignOut)

\* C23 witness: a refresh_session is waiting with the refresh credential it
\* copied, and a sign_out that found a Session has returned since: the slot is
\* empty, which it was not when the refresh_session started to wait.
C23_Witness ==
    /\ \E w \in InFlight(pending) : w.cmd = "refresh" /\ w.tok # EmptyTok
    /\ last.op = "sign_out"
    /\ last.held
    /\ session = None

(***************************************************************************)
(* C24: no step removes a committed conversation row or changes its id or  *)
(* its key, and a conversation id that a call has returned for the pair    *)
(* {A,B} is the id every later successful call for (A,B) or (B,A) returns: *)
(* each successful return names the committed row of the pair's key, and   *)
(* agrees with all the returns before it.                                  *)
(***************************************************************************)
C24_ReturnedIdStable ==
    [][/\ conversations \subseteq conversations'
       /\ returned \subseteq returned'
       /\ \A x \in returned' \ returned :
             /\ \A y \in returned : y[1] = x[1] => y[2] = x[2]
             /\ \E r \in conversations' :
                   /\ r.id = x[2]
                   /\ \E a, b \in x[1] : a # b /\ r.dm_participant_key = DmKey(a, b)]_vars

\* C24 witness: user A's call created the conversation and returned it; a call
\* of user B naming A, begun after that commit, found the row at its first
\* lookup and has returned the same id.
C24_Witness ==
    \E p, q \in Callers :
        /\ call[p].pc = "done" /\ call[p].path = "created"
        /\ call[q].pc = "done" /\ call[q].path = "fast"
        /\ call[q].user_id = call[p].other_user_id
        /\ call[q].other_user_id = call[p].user_id
        /\ call[q].user_id # call[p].user_id
        /\ call[p].result[1].ok /\ call[q].result[1].ok
        /\ call[p].result[1].val.success /\ call[q].result[1].val.success
        /\ call[q].result[1].val.conversation_id = call[p].result[1].val.conversation_id
        /\ \E x \in returned : x[2] = call[q].result[1].val.conversation_id[1]

(***************************************************************************)
(* C25: in every reachable state the refresh credential, the access        *)
(* credential and the subject id of a held Session belong to one identity, *)
(* also when a sign_in or a sync_oauth_session for another user completes  *)
(* while a refresh_session started for the previous user waits for the     *)
(* provider and then succeeds.  (A credential or subject id that is empty  *)
(* names no identity; C29 is about those.)                                 *)
(***************************************************************************)
\* the identities the three fields of Session s name
IdentitiesOf(s) ==
    { s.refresh_token.owner, s.access_token.owner, s.user_id } \ { EmptyStr }

C25_SessionOfOneIdentity ==
    session # None => Cardinality(IdentitiesOf(session[1])) <= 1

\* C25 witness: a refresh_session has returned true, and the Session in the
\* slot carries the access credential and subject id of one user next to the
\* refresh credential of another.
C25_Witness ==
    /\ last.op = "refresh_session"
    /\ last.why = "tokens"
    /\ session # None
    /\ session[1].access_token.owner = UserA
    /\ session[1].user_id = UserA
    /\ session[1].refresh_token.owner = UserB

(***************************************************************************)
(* C26: whenever refresh_session returns true, the slot holds at that      *)
(* moment a Session with the access credential and the expiry instant the  *)
(* provider has just issued, also when a sign_out has run between the      *)
(* refresh's read of the refresh credential and its write-back.            *)
(***************************************************************************)
C26_RefreshTrueMeansHeld ==
    (last.op = "refresh_session" /\ last.ret = Ok(TRUE)) =>
        /\ session # None
        /\ \E shape \in TokenShapes, u \in { UserA, UserB }, d \in ExpiresIn :
              /\ session[1].access_token = IssuedAccess(shape, u, issued)
              /\ session[1].expires_at = ExpiresAt(now, d)

\* C26 witness: refresh_session, which had found a Session at its first
\* lock, has returned true on an authentication result, and the slot is empty.
C26_Witness ==
    /\ last.op = "refresh_session"
    /\ last.held
    /\ last.why = "tokens"
    /\ last.ret = Ok(TRUE)
    /\ session = None

(***************************************************************************)
(* C27: a refresh_session whose provider answer arrives after a sign_out   *)
(* has emptied the slot does not re-create a Session: when the slot is     *)
(* empty as the answer is handled it is empty afterwards, whether the      *)
(* answer is an authentication result, a response without one, or an       *)
(* error.                                                                  *)
(***************************************************************************)
C27_RefreshNeverRecreates ==
    [][(last'.op = "refresh_session" /\ pending' # pending /\ session = None)
          => session' = None]_vars

\* C27 witness: the provider has issued credentials in answer to a
\* refresh_session that was waiting while the slot was emptied; they were not
\* installed, no Session is held and no other refresh is waiting.
C27_Witness ==
    /\ last.op = "refresh_session"
    /\ last.why = "tokens"
    /\ issued >= 1
    /\ RefreshRequests(pending) = 0
    /\ session = None

(***************************************************************************)
(* C28: refresh_session does not compare the clock with expires_at.  With  *)
(* a Session in the slot whose expiry instant has passed it still sends    *)
(* the refresh credential of that Session to the provider, and when the    *)
(* provider answers with an authentication result the Session in the slot  *)
(* carries an expiry instant in the future, so get_user_id yields its      *)
(* subject id again.                                                       *)
(***************************************************************************)
C28_RefreshIgnoresExpiry ==
    /\ []((session # None /\ now >= session[1].expires_at /\ CanAwait) =>
             ENABLED (/\ RefreshSession
                      /\ BagIn(Waiting("refresh", session[1].refresh_token), pending')
                      /\ BagCardinality(pending') = BagCardinality(pending) + 1))
    /\ [][(last'.op = "refresh_session" /\ last'.why = "tokens" /\ session # None) =>
             /\ session' # None
             /\ session'[1].expires_at > now'
             /\ get_user_id(session', now') = Some(session'[1].user_id)]_vars

\* C28 witness: the first credentials the provider has issued were issued to
\* a refresh_session, whose Session had therefore expired when it was called;
\* the Session now in the slot is not expired although the clock has passed
\* the expiry instant it was synchronised with.
C28_Witness ==
    /\ last.op = "refresh_session"
    /\ last.why = "tokens"
    /\ issued = 1
    /\ now >= 1
    /\ session # None
    /\ session[1].expires_at > now
    /\ get_user_id(session, now) = Some(UserB)

(***************************************************************************)
(* C29: in every reachable state a held Session has a non-empty subject id *)
(* and a non-empty access credential, whether sign_in installed it,        *)
(* refresh_session rewrote it or sync_oauth_session installed it, so that  *)
(* get_user_id and the gate never hand out an empty identity.              *)
(***************************************************************************)
C29_HeldSessionHasIdentity ==
    session # None =>
        /\ session[1].user_id # EmptyStr
        /\ session[1].access_token # EmptyTok

\* C29 witness: sign_in has returned success on an authentication result
\* without an identity credential; the Session it installed is not expired
\* and the gate hands out the empty string as the caller's subject id.
C29_Witness ==
    /\ last.op = "sign_in"
    /\ last.why = "tokens"
    /\ last.ret.success
    /\ session # None
    /\ session[1].user_id = EmptyStr
    /\ get_user_id_from_store(session, now) = Ok(EmptyStr)

(***************************************************************************)
(* C30: the canonical key is injective on unordered pairs, for every       *)
(* subject id that can reach get_or_create_dm_conversation (the caller's   *)
(* id as the Session holds it, the other id as the UUID parser accepts     *)
(* it): two calls that have computed the same key are calls for the same   *)
(* unordered pair, and the ':' separator lets no two pairs collide.        *)
(***************************************************************************)
C30_KeyInjective ==
    \A p, q \in Callers :
        (call[p].dm_key # EmptyStr /\ call[p].dm_key = call[q].dm_key) =>
            { call[p].user_id, call[p].other_user_id }
                = { call[q].user_id, call[q].other_user_id }

\* C30 witness: two calls for different unordered pairs have returned success
\* with one and the same conversation, of which only one pair are the
\* participants.
C30_Witness ==
    \E x, y \in returned :
        /\ x[1] # y[1]
        /\ x[2] = y[2]
        /\ \E r \in conversations :
              /\ r.id = x[2]
              /\ { m.user_id : m \in { n \in participants : n.conversation_id = r.id } } = x[1]

(***************************************************************************)
(* C31: deduplication and the rejection of a self-conversation go by user, *)
(* not by spelling.  When other_user_id names a user in another textual    *)
(* form that the identifier validation accepts, the successful calls for   *)
(* the same two users still return one conversation, and a caller naming   *)
(* itself in such a form is rejected before the transaction is opened.     *)
(***************************************************************************)
C31_DedupByUser ==
    /\ \A x, y \in returned :
          { UuidOf(u) : u \in x[1] } = { UuidOf(u) : u \in y[1] } => x[2] = y[2]
    /\ \A p \in Callers :
          (call[p].gated /\ UuidParseOk(call[p].other_user_id)
              /\ UuidOf(call[p].other_user_id) = UuidOf(call[p].user_id))
          => /\ call[p].pc = "done"
             /\ call[p].result = Some(Ok(ConversationResult(FALSE, None,
                                    Some("Cannot create conversation with yourself"))))

\* C31 witness: user a1 has been returned two conversations with user a2,
\* one for the spelling "a2" and one for "A2", and both rows are committed.
C31_Witness ==
    \E x, y \in returned :
        /\ x[1] = { UserA, UserB }
        /\ y[1] = { UserA, UpperB }
        /\ x[2] # y[2]
        /\ \E r1, r2 \in conversations : r1.id = x[2] /\ r2.id = y[2]

(***************************************************************************)
(* C32: whenever get_or_create_dm_conversation has returned success with   *)
(* identifier c to caller A naming B, c is the id of a committed direct    *)
(* conversation row whose key is key(A,B) and whose participant rows are   *)
(* exactly those of A and B, on the fast, the created and the conflict     *)
(* path alike.                                                             *)
(***************************************************************************)
\* the users with a committed participant row of conversation id
MembersOf(id) == { m.user_id : m \in { n \in participants : n.conversation_id = id } }

C32_ReturnedRowIsThePairs ==
    \A p \in Callers :
        (/\ call[p].pc = "done"
         /\ call[p].result # None
         /\ call[p].result[1].ok
         /\ call[p].result[1].val.success)
        => /\ call[p].result[1].val.conversation_id # None
           /\ \E r \in conversations :
                 /\ r.id = call[p].result[1].val.conversation_id[1]
                 /\ r.type = "direct"
                 /\ r.dm_participant_key = DmKey(call[p].user_id, call[p].other_user_id)
                 /\ MembersOf(r.id) = { call[p].user_id, call[p].other_user_id }

\* C32 witness: a caller named a2:a3 has been returned, on the fast path, the
\* committed conversation of the users a1:a2 and a3, whose key equals the key
\* of its own pair; it has no participant row in it.
C32_Witness ==
    \E p \in Callers :
        /\ call[p].pc = "done"
        /\ call[p].path = "fast"
        /\ call[p].result[1].ok
        /\ call[p].result[1].val.success
        /\ \E r \in conversations :
              /\ r.id = call[p].result[1].val.conversation_id[1]
              /\ r.dm_participant_key = DmKey(call[p].user_id, call[p].other_user_id)
              /\ call[p].user_id \notin MembersOf(r.id)

(***************************************************************************)
(* C33: get_or_create_dm_conversation uses the subject id the gate handed  *)
(* to it at its start for all of its store writes.  When the Session is    *)
(* cleared, replaced by that of another user, or expires while the call    *)
(* waits on the store, the call goes on: its local subject id stays what   *)
(* the gate returned, no step of the slot or the clock touches the call,   *)
(* each store answer remains possible whatever the slot holds, and the     *)
(* rows it commits are those of the subject id read at the start.          *)
(***************************************************************************)
InStore == { "begin", "select", "insert", "requery", "participants", "commit" }

C33_SubjectIdReadOnce ==
    /\ [][\A p \in Callers :
             /\ (call[p].pc = "idle" /\ call'[p].pc = "begin") =>
                    call'[p].user_id = get_user_id_from_store(session, now).val
             /\ (call[p].pc \in InStore) => call'[p].user_id = call[p].user_id
             /\ (session' # session \/ now' # now) => call'[p] = call[p]
             /\ (call[p].pc = "commit" /\ call[p].path = "created"
                    /\ call'[p].pc = "done" /\ ~call'[p].faulted) =>
                    /\ participants' = participants
                          \cup ParticipantRows(call[p].conversation_id[1],
                                               call[p].user_id, call[p].other_user_id)
                    /\ conversations' = conversations
                          \cup { ConversationRow(call[p].conversation_id[1],
                                                 DmKey(call[p].user_id, call[p].other_user_id)) }]_vars
    /\ [](\A p \in Callers :
             /\ call[p].pc = "participants" => ENABLED DmParticipants(p, TRUE)
             /\ call[p].pc = "commit" => ENABLED DmCommit(p, TRUE))

\* C33 witness: a call that passed the gate as one user has inserted its rows
\* and waits for the commit, while the gate would now refuse the caller or
\* hand out another subject id.
C33_Witness ==
    \E p \in Callers :
        /\ call[p].pc = "commit"
        /\ call[p].path = "created"
        /\ \E m \in call[p].tx.participants : m.user_id = call[p].user_id
        /\ LET gate == get_user_id_from_store(session, now)
           IN ~gate.ok \/ gate.val # call[p].user_id

(***************************************************************************)
(* C34: the copies of the session validity check agree.  For every slot    *)
(* state and clock reading, get_user_id yields Some(id) exactly when       *)
(* get_user_id_from_store of conversations.rs, of friends.rs and of        *)
(* profile.rs yields Ok(id), with the same id, and get_session and         *)
(* get_auth_token yield a value in exactly those states.                   *)
(***************************************************************************)
C34_ValidityChecksAgree ==
    LET uid == get_user_id(session, now)
        gates == { get_user_id_from_store(session, now),
                   friends_get_user_id_from_store(session, now),
                   profile_get_user_id_from_store(session, now) }
    IN /\ \A g \in gates : (uid # None) <=> g.ok
       /\ \A g \in gates : g.ok => g.val = uid[1]
       /\ (get_session(session, now) # None) <=> (uid # None)
       /\ (get_auth_token(session, now) # None) <=> (uid # None)

\* C34 witness: get_user_id has just returned None for a held Session at the
\* very instant it expires, where a check written with `>` would still admit.
C34_Witness ==
    /\ last.op = "get_user_id"
    /\ last.ret = None
    /\ session # None
    /\ now = session[1].expires_at

(***************************************************************************)
(* C35: the friends relation is symmetric in every committed store state:  *)
(* after any sequence and interleaving of accept_friend_request and        *)
(* remove_friend calls, a row (A,B) exists in friends iff a row (B,A)      *)
(* exists.                                                                 *)
(***************************************************************************)
C35_FriendsSymmetric ==
    \A r \in friends :
        \E q \in friends : q.user_id = r.friend_id /\ q.friend_id = r.user_id

\* C35 witness: the friendship of the two users is committed, a remove_friend
\* of one of them has its DELETE ahead, and an accept_friend_request has
\* returned success.
C35_Witness ==
    /\ friends # {}
    /\ \E p, q \in Callers :
          /\ task[p].pc = "rm_delete"
          /\ FriendRowsBetween(friends, task[p].user_id, task[p].arg) # {}
          /\ task[q].cmd = "accept_friend_request"
          /\ task[q].pc = "done"
          /\ task[q].inserted


\* C36: in every committed state of friend_requests at most one pending request
\* exists between any unordered pair of users, whatever its direction, also when
\* two send_friend_request calls of the pair run concurrently between the
\* existence check and the INSERT
C36_OnePendingPerPair ==
    \A r, s \in friend_requests :
        ( /\ r.status = "pending"
          /\ s.status = "pending"
          /\ { r.from_user_id, r.to_user_id } = { s.from_user_id, s.to_user_id } )
        => r.id = s.id

\* a send from b to a has inserted its pending row while a send from a to b is
\* past its existence check and before its INSERT
C36_Witness ==
    \E p, q \in Callers :
        /\ p # q
        /\ task[p].cmd = "send_friend_request"
        /\ task[p].pc = "insert"
        /\ task[q].cmd = "send_friend_request"
        /\ task[q].pc = "done"
        /\ task[q].inserted
        /\ \E r \in friend_requests :
              /\ r.status = "pending"
              /\ r.from_user_id = task[p].to_user_id
              /\ r.to_user_id = task[p].from_user_id


\* the friendship rows created for request r
RowsOf(r) == { f \in friends : f.req = r.id }

\* C37: accept_friend_request is all-or-nothing and at most once per request:
\* once no accept call of a request is still running, a request marked accepted
\* has exactly one pair of friendship rows (from, to), (to, from) created for
\* it, also when the INSERT fails after the UPDATE and when two calls accept
\* the same pending request at the same time
C37_AcceptAllOrNothing ==
    \A r \in friend_requests :
        ( /\ r.status = "accepted"
          /\ \A p \in Callers :
                ~( /\ task[p].cmd = "accept_friend_request"
                   /\ task[p].pc \in { "acc_select", "acc_update", "acc_insert" }
                   /\ task[p].arg = r.id ) )
        => /\ Cardinality(RowsOf(r)) = 2
           /\ \E f, g \in RowsOf(r) :
                 /\ f.user_id = r.from_user_id /\ f.friend_id = r.to_user_id
                 /\ g.user_id = r.to_user_id /\ g.friend_id = r.from_user_id

\* an accept call has returned "Database error" from its INSERT after its
\* UPDATE was applied
C37_Witness ==
    \E p \in Callers, r \in friend_requests :
        /\ task[p].cmd = "accept_friend_request"
        /\ task[p].pc = "done"
        /\ task[p].result = Some(Err("Database error"))
        /\ r.status = "accepted"
        /\ RowsOf(r) = {}
        /\ \A q \in Callers : task[q].pc \in { "idle", "done" }


\* sender_id has a committed participant row of the conversation that the text
\* conversation_id names
IsParticipant(sender_id, conversation_id) ==
    \E r \in participants :
        /\ r.user_id = sender_id
        /\ ConversationIdText(r.conversation_id) = UuidOf(conversation_id)

\* C38: send_message appends a message row only when the sender it read at the
\* gate has a participant row of the target conversation and the content is
\* not empty after trimming and at most 5000 long; a call that returns success
\* has appended exactly its row, every other call returns a failure and leaves
\* messages alone; so every stored message's sender is a participant of its
\* conversation
C38_SendMessageGuarded ==
    /\ [](\A m \in messages :
             /\ IsParticipant(m.sender_id, m.conversation_id)
             /\ m.content.body > 0
             /\ ContentLen(m.content) <= 5000)
    /\ [][\A p \in Callers :
             ( /\ task'[p].cmd = "send_message"
               /\ task'[p].pc = "done"
               /\ task[p].pc # "done" )
             => IF task'[p].result = Some(Ok(MessageResult(TRUE, None)))
                THEN /\ task[p].pc = "msg_insert"
                     /\ IsParticipant(task[p].user_id, task[p].arg.conversation_id)
                     /\ task[p].arg.content.body > 0
                     /\ ContentLen(task[p].arg.content) <= 5000
                     /\ \E m \in messages' \ messages :
                           /\ messages' = messages \cup { m }
                           /\ m.sender_id = task[p].user_id
                           /\ m.conversation_id = UuidOf(task[p].arg.conversation_id)
                           /\ m.content.body = task[p].arg.content.body
                ELSE /\ messages' = messages
                     /\ \/ ~task'[p].result[1].ok
                        \/ ~task'[p].result[1].val.success]_vars

\* a message of the greatest length is stored, trimmed, and a user without a
\* participant row of an existing conversation has been refused
C38_Witness ==
    /\ \E m \in messages : m.content = Content(0, MaxContentLen - 2, 0)
    /\ participants # {}
    /\ \E p \in Callers :
          /\ task[p].cmd = "send_message"
          /\ task[p].pc = "done"
          /\ task[p].result = Some(Ok(MessageResult(FALSE,
                                 Some("You are not a participant in this conversation"))))

====
